---- MODULE Spec2Model ----
(***************************************************************************)
(* The spot discovery and rating aggregation engine of vendroBe:           *)
(* SpotService (createSpot, deleteSpot, addSpotReview, updateSpotRatings,  *)
(* getSpotsFiltered, getAllSpots, getNearbySpots, getSpotById) and the     *)
(* spot routes in front of it, over the spots and spot_reviews tables.     *)
(*                                                                         *)
(* Ratings stored on a spot are decimal(2,1) columns; the model keeps them *)
(* in tenths (43 is 4.3).  Review ratings are integers.                    *)
(***************************************************************************)
EXTENDS Integers, Sequences, FiniteSets, Bags, TLC

\* ------------------------------------------------------------------ bounds
MaxUsers == 3
MaxSpots == 2
MaxReviews == 3
MaxProcs == 2
ConcSpots == 1
ConcReviews == 2

Users == 1..MaxUsers
Procs == 1..MaxProcs

\* ------------------------------------------------------------------- enums
TransportMode == {"hitchhiking", "cycling", "van_life", "walking"}

SpotType == {"highway_entrance", "rest_stop", "gas_station", "bridge",
             "roundabout", "parking_lot", "other"}

\* Coordinates are in units of 1/111 of a degree, one kilometre of arc, so that
\* latitude 90 is 9990 and the distance of two nearby points, which the store
\* computes with ST_Distance, is the plane distance of their coordinates in km.
UnitsPerDegree == 111

\* An optional value: Absent (undefined / null) or Some(v).
Absent == {}
Some(v) == {v}
Get(o) == CHOOSE v \in o : TRUE

VARIABLES
    spots,      \* the spots table: a sequence of rows, row i has id i, in creation order
    reviews,    \* the spot_reviews table: a bag of rows (row ids are generated, not modelled)
    devUser,    \* whether the dev user row exists in the users table
    pc,         \* pc[p]: where request p stands inside addSpotReview
    call,       \* call[p]: the arguments of request p's addSpotReview call
    avg,        \* avg[p]: the AVG row request p read in updateSpotRatings
    profiles,   \* the user_profiles table: per user, the profile row if there is one
    response,   \* response[p]: the status of request p's last finished call, 0 before any
    result,     \* the response of the last discovery query, until the store changes
    badges,     \* the user_badges table: a bag of rows [user_id, badge_key]
    trust,      \* the last two calculateTrustScore calls, the latest first
    now,        \* Date.now(), in days
    savedReview,   \* savedReview[p]: request p's addSpotReview call has inserted its review
    modeRatings,   \* the modeRatings object the last updateSpotAggregatedRatings call built
    verifications, \* the trust_verifications table: a bag of rows [user_id, type]
    verify,        \* verify[p]: where request p stands inside addVerification
    userEmails,    \* the users table: the e-mails of the rows sendMagicLink has created
    magicTokens,   \* the magic_tokens table: a set of rows, the token is unique
    issued,        \* issued[t]: the e-mail token t was generated for, in generation order
    clock,         \* new Date(), in units of the tokens' lifetime (15 minutes)
    accepted,      \* the tokens verifyMagicLink has answered with an access token, a bag
    magic,         \* magic[p]: where request p stands inside sendMagicLink or verifyMagicLink
    trips,         \* the trips table: the ids of the rows
    tripSpots      \* the trip_spots table: a bag of rows [trip_id, spot_id, order_index]

vars == <<spots, reviews, devUser, pc, call, avg, profiles, response, result,
          badges, trust, now, savedReview, modeRatings, verifications, verify,
          userEmails, magicTokens, issued, clock, accepted, magic, trips,
          tripSpots>>

\* ------------------------------------------------------------- spots table
\* A spots row as createSpot persists it: the entity's column defaults for
\* everything the caller does not give.
NewSpot(lat, lon, type) ==
    [latitude |-> lat, longitude |-> lon, spot_type |-> type,
     transport_modes |-> {}, safety_rating |-> 0, overall_rating |-> 0,
     mode_ratings |-> {}, total_reviews |-> 0, is_verified |-> FALSE,
     is_active |-> TRUE]

SpotIdsOf(tbl) == 1..Len(tbl)

\* spotRepository.findOne({ where: { id, is_active: true } }) found a row.
\* A lookup that finds soft-deleted rows too.
SpotFoundInactiveToo(tbl, id) == id \in SpotIdsOf(tbl)

SpotFound(tbl, id) == id \in SpotIdsOf(tbl) /\ tbl[id].is_active

\* ----------------------------------------------------------- reviews table
\* An optional field of a request body.
Optional(d, field) == IF field \in DOMAIN d THEN d[field] ELSE Absent

ReviewRow(spotId, d) ==
    [user_id |-> d.user_id, spot_id |-> spotId,
     transport_mode |-> d.transport_mode,
     safety_rating |-> d.safety_rating,
     effectiveness_rating |-> d.effectiveness_rating,
     overall_rating |-> d.overall_rating,
     wait_time_minutes |-> Optional(d, "wait_time_minutes"),
     legal_status |-> Optional(d, "legal_status"),
     facility_rating |-> Optional(d, "facility_rating"),
     accessibility_rating |-> Optional(d, "accessibility_rating")]

ReviewRows(tbl) == BagToSet(tbl)

NumReviews(tbl) == BagCardinality(tbl)

\* The rows of spot s together with how often each is in the table.
ReviewsOfSpot(tbl, s) == {r \in ReviewRows(tbl) : r.spot_id = s}

RECURSIVE SumOver(_, _, _)
SumOver(tbl, rows, field) ==
    IF rows = {} THEN 0
    ELSE LET r == CHOOSE x \in rows : TRUE
         IN  CopiesIn(r, tbl) * r[field] + SumOver(tbl, rows \ {r}, field)

RECURSIVE CountOver(_, _)
CountOver(tbl, rows) ==
    IF rows = {} THEN 0
    ELSE LET r == CHOOSE x \in rows : TRUE
         IN  CopiesIn(r, tbl) + CountOver(tbl, rows \ {r})

\* Number of review rows of one (user, spot) pair.
ReviewCount(tbl, u, s) ==
    CountOver(tbl, {r \in ReviewRows(tbl) : r.user_id = u /\ r.spot_id = s})

\* A lookup with the two keys of the where clause exchanged.
ExistingReviewKeysSwapped(tbl, s, u) == ReviewCount(tbl, s, u) > 0

\* reviewRepository.findOne({ where: { spot_id, user_id } }) found a row.
ExistingReview(tbl, s, u) == ReviewCount(tbl, u, s) > 0

\* ------------------------------------------------------------ addSpotReview
\* The rating validation at the head of addSpotReview: safety_rating and
\* overall_rating only.
RatingError(d) ==
    \/ d.safety_rating < 1 \/ d.safety_rating > 5
    \/ d.overall_rating < 1 \/ d.overall_rating > 5

\* reviewRepository.save(review): one more row.
SaveReview(tbl, s, d) == tbl (+) SetToBag({ReviewRow(s, d)})

\* The AVG query of updateSpotRatings: the exact sums and the row count of the
\* spot's reviews (AVG is NULL over no rows).
AvgRatings(tbl, s) ==
    LET rows == ReviewsOfSpot(tbl, s)
    IN  [n |-> CountOver(tbl, rows),
         overall |-> SumOver(tbl, rows, "overall_rating"),
         safety |-> SumOver(tbl, rows, "safety_rating")]

\* A store that cuts the mean after the first decimal instead of rounding.
RoundTenthsTruncated(sum, n) ==
    IF n = 0 THEN 0 ELSE (10 * sum) \div n

\* A mean sum/n written to a decimal(2,1) column, in tenths: the store rounds
\* to one decimal, half away from zero; parseFloat(NULL) || 0 is 0.
RoundTenths(sum, n) ==
    IF n = 0 THEN 0 ELSE (20 * sum + n) \div (2 * n)

\* spotRepository.update(spotId, { overall_rating, safety_rating }): an UPDATE
\* by id, whatever is_active says; no row, no effect.
UpdateRatings(tbl, s, a) ==
    IF s \in SpotIdsOf(tbl)
    THEN [tbl EXCEPT ![s].overall_rating = RoundTenths(a.overall, a.n),
                     ![s].safety_rating = RoundTenths(a.safety, a.n)]
    ELSE tbl

\* addSpotReview run alone from start to end on the tables (sp, rv): the
\* status it answers with and the tables it leaves.
AddSpotReviewRun(sp, rv, s, d) ==
    IF RatingError(d) THEN [status |-> 400, spots |-> sp, reviews |-> rv]
    ELSE IF ~SpotFound(sp, s) THEN [status |-> 404, spots |-> sp, reviews |-> rv]
    ELSE IF ExistingReview(rv, s, d.user_id)
         THEN [status |-> 409, spots |-> sp, reviews |-> rv]
    ELSE LET rv1 == SaveReview(rv, s, d)
         IN  [status |-> 201,
              spots |-> UpdateRatings(sp, s, AvgRatings(rv1, s)),
              reviews |-> rv1]

\* ------------------------------------------------------------------ inputs
ReviewData(u, m, sr, er, orr) ==
    [user_id |-> u, transport_mode |-> m, safety_rating |-> sr,
     effectiveness_rating |-> er, overall_rating |-> orr]

\* Review bodies: one acceptable body per user, the ratings and the mode
\* differing from user to user (safety 2, 1, 2, ..; overall 3, 5, 2, ..), and
\* two bodies that fail the validation, one by its safety_rating and one by
\* its overall_rating.
ReviewInputs ==
    {ReviewData(u, IF u % 2 = 1 THEN "hitchhiking" ELSE "cycling",
                (u % 2) + 1, ((u + 1) % 5) + 1, ((2 * u) % 5) + 1) : u \in Users} \cup
    {ReviewData(1, "hitchhiking", 0, 3, 3), ReviewData(1, "cycling", 3, 3, 6)}

\* Spot ids a request may name: the ids the table can hold and one past them.
SpotIdInputs == 1..(MaxSpots + 1)

Idle == [p \in Procs |-> "idle"]
NoCall == [spot |-> 0, data |-> ReviewData(0, "hitchhiking", 0, 0, 0)]
NoAvg == [n |-> 0, overall |-> 0, safety |-> 0]
NoModeRatings == [spot |-> 0, reviews |-> EmptyBag, stats |-> {}]
NoMagic == [pc |-> "idle", email |-> 0, token |-> 0, row |-> Absent]
NoVerify == [pc |-> "idle", user |-> 0, type |-> "email", row |-> Absent, keys |-> <<>>]

\* The query parameters of a discovery request, each one given or not.
NoQuery ==
    [route |-> "none", mode |-> Absent, id |-> Absent, user |-> Absent,
     transport_modes |-> Absent, latitude |-> Absent, longitude |-> Absent,
     radius |-> Absent, limit |-> Absent, offset |-> Absent,
     spot_type |-> Absent, is_verified |-> Absent, min_rating |-> Absent,
     min_effectiveness |-> Absent, safety_priority |-> Absent]

\* A discovery response: the status, the ids of the spots in data, in order,
\* the limit the query ran with, and the request it answers.
NoResult == [status |-> 0, spots |-> <<>>, limit |-> 0, req |-> NoQuery]

Init ==
    /\ spots = <<>>
    /\ reviews = EmptyBag
    /\ devUser = FALSE
    /\ pc = Idle
    /\ call = [p \in Procs |-> NoCall]
    /\ avg = [p \in Procs |-> NoAvg]
    /\ profiles = [u \in Users |-> Absent]
    /\ response = [p \in Procs |-> 0]
    /\ result = NoResult
    /\ badges = EmptyBag
    /\ trust = <<>>
    /\ now = 0
    /\ savedReview = [p \in Procs |-> FALSE]
    /\ modeRatings = NoModeRatings
    /\ verifications = EmptyBag
    /\ verify = [p \in Procs |-> NoVerify]
    /\ userEmails = {}
    /\ magicTokens = {}
    /\ issued = <<>>
    /\ clock = 0
    /\ accepted = EmptyBag
    /\ magic = [p \in Procs |-> NoMagic]
    /\ trips = {}
    /\ tripSpots = EmptyBag

\* ----------------------------------------------------------------- actions
\* createSpot: ensureDevUser first, then the coordinate validation (400), then
\* the insert.  cap bounds the table.
createSpot(cap, lat, lon, type) ==
    /\ Len(spots) < cap
    /\ devUser' = TRUE
    /\ IF \/ lat < 0 - 90 * UnitsPerDegree \/ lat > 90 * UnitsPerDegree
          \/ lon < 0 - 180 * UnitsPerDegree \/ lon > 180 * UnitsPerDegree
       THEN /\ spots' = spots
            /\ response' = [response EXCEPT ![1] = 400]
       ELSE /\ spots' = Append(spots, NewSpot(lat, lon, type))
            /\ response' = [response EXCEPT ![1] = 201]
    /\ result' = NoResult
    /\ UNCHANGED <<tripSpots, trips, magic, accepted, clock, issued, magicTokens, userEmails, verify, verifications, modeRatings, badges, trust, now, savedReview, reviews, pc, call, avg, profiles>>

\* deleteSpot: getSpotById (404 for a missing or inactive spot), then the soft
\* delete.
deleteSpot(id) ==
    /\ IF SpotFound(spots, id)
       THEN /\ spots' = [spots EXCEPT ![id].is_active = FALSE]
            /\ response' = [response EXCEPT ![1] = 200]
       ELSE /\ spots' = spots
            /\ response' = [response EXCEPT ![1] = 404]
    /\ result' = NoResult
    /\ UNCHANGED <<tripSpots, trips, magic, accepted, clock, issued, magicTokens, userEmails, verify, verifications, modeRatings, badges, trust, now, savedReview, reviews, devUser, pc, call, avg, profiles>>

\* addSpotReview with no other request in flight.
addSpotReview(s, d) ==
    LET run == AddSpotReviewRun(spots, reviews, s, d)
    IN  /\ run.status = 201 => NumReviews(reviews) < MaxReviews
        /\ spots' = run.spots
        /\ reviews' = run.reviews
        /\ response' = [response EXCEPT ![1] = run.status]
        /\ result' = NoResult
        /\ UNCHANGED <<tripSpots, trips, magic, accepted, clock, issued, magicTokens, userEmails, verify, verifications, modeRatings, badges, trust, now, savedReview, devUser, pc, call, avg, profiles>>

\* The same call as request p runs it, one store statement per step.
\* Entry: the rating validation throws before the first await.
ReviewBegin(p, s, d) ==
    /\ pc[p] = "idle"
    /\ IF RatingError(d)
       THEN /\ response' = [response EXCEPT ![p] = 400]
            /\ UNCHANGED <<pc, call>>
       ELSE /\ pc' = [pc EXCEPT ![p] = "getSpotById"]
            /\ call' = [call EXCEPT ![p] = [spot |-> s, data |-> d]]
            /\ response' = [response EXCEPT ![p] = 0]
    /\ savedReview' = [savedReview EXCEPT ![p] = FALSE]
    /\ UNCHANGED <<tripSpots, trips, magic, accepted, clock, issued, magicTokens, userEmails, verify, verifications, modeRatings, badges, trust, now, spots, reviews, devUser, avg, profiles, result>>

\* await this.getSpotById(spotId)
ReviewGetSpot(p) ==
    /\ pc[p] = "getSpotById"
    /\ IF SpotFound(spots, call[p].spot)
       THEN /\ pc' = [pc EXCEPT ![p] = "findOne"]
            /\ UNCHANGED <<call, response>>
       ELSE /\ pc' = [pc EXCEPT ![p] = "idle"]
            /\ call' = [call EXCEPT ![p] = NoCall]
            /\ response' = [response EXCEPT ![p] = 404]
    /\ UNCHANGED <<tripSpots, trips, magic, accepted, clock, issued, magicTokens, userEmails, verify, verifications, modeRatings, badges, trust, now, savedReview, spots, reviews, devUser, avg, profiles, result>>

\* await this.reviewRepository.findOne(...): the duplicate check
ReviewFindOne(p) ==
    /\ pc[p] = "findOne"
    /\ IF ExistingReview(reviews, call[p].spot, call[p].data.user_id)
       THEN /\ pc' = [pc EXCEPT ![p] = "idle"]
            /\ call' = [call EXCEPT ![p] = NoCall]
            /\ response' = [response EXCEPT ![p] = 409]
       ELSE /\ pc' = [pc EXCEPT ![p] = "save"]
            /\ UNCHANGED <<call, response>>
    /\ UNCHANGED <<tripSpots, trips, magic, accepted, clock, issued, magicTokens, userEmails, verify, verifications, modeRatings, badges, trust, now, savedReview, spots, reviews, devUser, avg, profiles, result>>

\* await this.reviewRepository.save(review): the table has no constraint on
\* (user_id, spot_id), so the insert always succeeds.
ReviewSave(p) ==
    /\ pc[p] = "save"
    /\ NumReviews(reviews) < ConcReviews
    /\ reviews' = SaveReview(reviews, call[p].spot, call[p].data)
    /\ savedReview' = [savedReview EXCEPT ![p] = TRUE]
    /\ pc' = [pc EXCEPT ![p] = "avg"]
    /\ UNCHANGED <<tripSpots, trips, magic, accepted, clock, issued, magicTokens, userEmails, verify, verifications, modeRatings, badges, trust, now, spots, devUser, call, avg, profiles, response, result>>

\* updateSpotRatings, first statement: the AVG query
ReviewAvg(p) ==
    /\ pc[p] = "avg"
    /\ avg' = [avg EXCEPT ![p] = AvgRatings(reviews, call[p].spot)]
    /\ pc' = [pc EXCEPT ![p] = "update"]
    /\ UNCHANGED <<tripSpots, trips, magic, accepted, clock, issued, magicTokens, userEmails, verify, verifications, modeRatings, badges, trust, now, savedReview, spots, reviews, devUser, call,
                   profiles, response, result>>

\* updateSpotRatings, second statement: the UPDATE of the spot, then the return
ReviewUpdate(p) ==
    /\ pc[p] = "update"
    /\ spots' = UpdateRatings(spots, call[p].spot, avg[p])
    /\ pc' = [pc EXCEPT ![p] = "idle"]
    /\ call' = [call EXCEPT ![p] = NoCall]
    /\ avg' = [avg EXCEPT ![p] = NoAvg]
    /\ response' = [response EXCEPT ![p] = 201]
    /\ UNCHANGED <<tripSpots, trips, magic, accepted, clock, issued, magicTokens, userEmails, verify, verifications, modeRatings, badges, trust, now, savedReview, reviews, devUser, profiles, result>>

\* ---------------------------------------------------------- specifications
\* Latitudes createSpot is called with: one in range, one past 90 degrees.
CreateLats == {2, 90 * UnitsPerDegree + 1}

\* SeqSpec: every call runs alone, from start to end.
SeqCreate == \E lat \in CreateLats : createSpot(MaxSpots, lat, 1, "other")
SeqDelete == \E id \in SpotIdInputs : deleteSpot(id)
SeqReview == \E s \in SpotIdInputs, d \in ReviewInputs : addSpotReview(s, d)

SeqNext == SeqCreate \/ SeqDelete \/ SeqReview

SeqSpec == Init /\ [][SeqNext]_vars

\* Spec: addSpotReview calls of several requests interleave statement by
\* statement.
ConcReviewInputs == {d \in ReviewInputs : d.user_id \in Procs}

Begin ==
    \E p \in Procs, s \in 1..(ConcSpots + 1), d \in ConcReviewInputs :
        ReviewBegin(p, s, d)
GetSpot == \E p \in Procs : ReviewGetSpot(p)
FindOne == \E p \in Procs : ReviewFindOne(p)
Save == \E p \in Procs : ReviewSave(p)
Avg == \E p \in Procs : ReviewAvg(p)
Update == \E p \in Procs : ReviewUpdate(p)

ConcCreate == createSpot(ConcSpots, 2, 1, "other")

Next == ConcCreate \/ Begin \/ GetSpot \/ FindOne \/ Save \/ Avg \/ Update

Spec == Init /\ [][Next]_vars

\* A store statement of request p's addSpotReview call throws: the error
\* leaves the call at that await, nothing is rolled back, and errorHandler
\* answers 500 for an error without a statusCode.
ReviewStoreError(p) ==
    /\ pc[p] \in {"getSpotById", "findOne", "save", "avg", "update"}
    /\ pc' = [pc EXCEPT ![p] = "idle"]
    /\ call' = [call EXCEPT ![p] = NoCall]
    /\ avg' = [avg EXCEPT ![p] = NoAvg]
    /\ response' = [response EXCEPT ![p] = 500]
    /\ UNCHANGED <<tripSpots, trips, magic, accepted, clock, issued, magicTokens, userEmails, verify, verifications, modeRatings, badges, trust, now, savedReview, spots, reviews, devUser,
                   profiles, result>>

\* FailSpec: the interleaved addSpotReview calls, any store statement of
\* which may fail.
StoreError == \E p \in Procs : ReviewStoreError(p)

FailNext == Next \/ StoreError

FailSpec == Init /\ [][FailNext]_vars

\* ------------------------------------------------------ discovery queries
\* if (x): a number given and not 0.
Truthy(o) == o # Absent /\ Get(o) # 0

\* x given, else the default of the destructuring or of x || dflt.
OrElse(o, dflt) == IF o = Absent THEN dflt ELSE Get(o)

Min(a, b) == IF a <= b THEN a ELSE b

\* The squared distance in km of a spots row from a point.
Dist2(row, lat, lon) ==
    (row.latitude - lat) * (row.latitude - lat)
    + (row.longitude - lon) * (row.longitude - lon)

\* ST_DWithin(spot.location, ST_MakePoint(lng, lat), radius * 1000)
DWithin(row, lat, lon, radiusKm) == Dist2(row, lat, lon) <= radiusKm * radiusKm

RECURSIVE Perms(_)
Perms(S) ==
    IF S = {} THEN {<<>>}
    ELSE UNION {{<<x>> \o q : q \in Perms(S \ {x})} : x \in S}

\* The orders of the rows s, already sorted by key, that the store may return
\* for ORDER BY key: rows of equal key come in any order.
RECURSIVE TieOrders(_, _)
TieOrders(s, key) ==
    IF s = <<>> THEN {<<>>}
    ELSE LET n == Cardinality({i \in 1..Len(s) : key[s[i]] = key[s[1]]})
         IN  {q \o r : q \in Perms({s[i] : i \in 1..n}),
                       r \in TieOrders(SubSeq(s, n + 1, Len(s)), key)}

RECURSIVE SeqOfRange(_, _)
SeqOfRange(lo, hi) == IF lo > hi THEN <<>> ELSE SeqOfRange(lo, hi - 1) \o <<hi>>

\* SELECT ... WHERE id IN ids ORDER BY key: the possible results.
OrderedBy(n, ids, key) ==
    TieOrders(SortSeq(SelectSeq(SeqOfRange(1, n), LAMBDA i : i \in ids),
                      LAMBDA a, b : key[a] < key[b]), key)

\* .take(limit).skip(offset)
Page(s, limit, offset) == SubSeq(s, offset + 1, Min(Len(s), offset + limit))

\* The preference resolver behind userProfileService.getUserFilterPreferences:
\* the permissive default without a profile, else the profile's settings.
getUserFilterPreferences(pf, u) ==
    IF u \notin DOMAIN pf \/ pf[u] = Absent
    THEN [showAllSpots |-> TRUE, travelModes |-> {}, safetyPriority |-> "high"]
    ELSE [showAllSpots |-> Get(pf[u]).show_all_spots,
          travelModes |-> Get(pf[u]).travel_modes,
          safetyPriority |-> Get(pf[u]).safety_priority]

\* The filters of getSpotsFiltered, each one given or not.
NoFilters ==
    [transportModes |-> Absent, userId |-> Absent, latitude |-> Absent,
     longitude |-> Absent, radius |-> Absent, limit |-> Absent,
     offset |-> Absent, spotType |-> Absent, minRating |-> Absent,
     safetyPriority |-> Absent]

\* A resolution that takes the stored travel modes whatever showAllSpots says.
EffectiveTransportModesStored(f, pf) ==
    IF f.transportModes # Absent THEN Get(f.transportModes)
    ELSE IF f.userId # Absent
         THEN getUserFilterPreferences(pf, Get(f.userId)).travelModes
    ELSE {}

\* getSpotsFiltered: the transport modes the query filters by.
EffectiveTransportModes(f, pf) ==
    IF f.transportModes # Absent THEN Get(f.transportModes)
    ELSE IF f.userId # Absent
         THEN LET userPrefs == getUserFilterPreferences(pf, Get(f.userId))
              IN  IF ~userPrefs.showAllSpots THEN userPrefs.travelModes ELSE {}
    ELSE {}

\* getSpotsFiltered: whether the location branch is taken.
Located(f) == Truthy(f.latitude) /\ Truthy(f.longitude)

\* A WHERE clause whose mode test is containment (<@) instead of overlap (&&).
FilteredWhereContained(f, pf, row) ==
    /\ row.is_active
    /\ EffectiveTransportModes(f, pf) # {}
          => row.transport_modes \subseteq EffectiveTransportModes(f, pf)
    /\ Located(f)
          => DWithin(row, Get(f.latitude), Get(f.longitude), OrElse(f.radius, 10))
    /\ f.spotType # Absent => row.spot_type = Get(f.spotType)
    /\ Truthy(f.minRating) => row.overall_rating >= Get(f.minRating)
    /\ f.safetyPriority = Some("high") => row.safety_rating >= 40
    /\ f.safetyPriority = Some("medium") => row.safety_rating >= 25

\* getSpotsFiltered: the WHERE clause.
FilteredWhere(f, pf, row) ==
    /\ row.is_active
    /\ EffectiveTransportModes(f, pf) # {}
          => row.transport_modes \cap EffectiveTransportModes(f, pf) # {}
    /\ Located(f)
          => DWithin(row, Get(f.latitude), Get(f.longitude), OrElse(f.radius, 10))
    /\ f.spotType # Absent => row.spot_type = Get(f.spotType)
    /\ Truthy(f.minRating) => row.overall_rating >= Get(f.minRating)
    /\ f.safetyPriority = Some("high") => row.safety_rating >= 40
    /\ f.safetyPriority = Some("medium") => row.safety_rating >= 25

\* getSpotsFiltered: the results the query may return, as sequences of ids.
getSpotsFiltered(f, sp, pf) ==
    LET ids == {i \in 1..Len(sp) : FilteredWhere(f, pf, sp[i])}
        key == IF Located(f)
               THEN [i \in 1..Len(sp) |-> Dist2(sp[i], Get(f.latitude), Get(f.longitude))]
               ELSE [i \in 1..Len(sp) |-> 0 - i]
    IN  {Page(o, OrElse(f.limit, 50), OrElse(f.offset, 0)) :
            o \in OrderedBy(Len(sp), ids, key)}

\* The entry of mode m in a row's mode_ratings, if any.
ModeRating(row, m) == {mr \in row.mode_ratings : mr.mode = m}

\* getSpotsByTransportModeQuality
getSpotsByTransportModeQuality(m, f, minEffectiveness, sp, pf) ==
    {SelectSeq(o, LAMBDA i : \E mr \in ModeRating(sp[i], m) :
                                 mr.effectiveness >= OrElse(minEffectiveness, 40)) :
        o \in getSpotsFiltered([f EXCEPT !.transportModes = Some({m})], sp, pf)}

\* getAllSpots
getAllSpots(f, sp) ==
    LET ids == {i \in 1..Len(sp) :
                   /\ sp[i].is_active
                   /\ f.spot_type # Absent => sp[i].spot_type = Get(f.spot_type)
                   /\ f.is_verified # Absent => sp[i].is_verified = Get(f.is_verified)
                   /\ Truthy(f.min_rating) => sp[i].overall_rating >= Get(f.min_rating)}
        key == [i \in 1..Len(sp) |-> 0 - i]
    IN  {Page(o, OrElse(f.limit, 50), OrElse(f.offset, 0)) :
            o \in OrderedBy(Len(sp), ids, key)}

\* getNearbySpots
getNearbySpots(lat, lon, radiusKm, limit, sp) ==
    LET ids == {i \in 1..Len(sp) :
                   sp[i].is_active /\ DWithin(sp[i], lat, lon, radiusKm)}
        key == [i \in 1..Len(sp) |-> Dist2(sp[i], lat, lon)]
    IN  {Page(o, limit, 0) : o \in OrderedBy(Len(sp), ids, key)}

\* ------------------------------------------------------------ spot routes
\* A query parameter arrives as a string: given, it is truthy whatever the
\* number it spells ("0" too).  Parameters that spell no number are left out.
Answer(q, status, ids, limit) ==
    [status |-> status, spots |-> ids, limit |-> limit, req |-> q]

\* GET /filtered (the first handler registered for the path)
FilteredFilters(q) ==
    [transportModes |->
         IF q.transport_modes # Absent
         THEN Some(Get(q.transport_modes) \cap TransportMode) ELSE Absent,
     userId |-> q.user,
     latitude |->
         IF q.latitude # Absent /\ q.longitude # Absent THEN q.latitude ELSE Absent,
     longitude |->
         IF q.latitude # Absent /\ q.longitude # Absent THEN q.longitude ELSE Absent,
     radius |->
         IF q.latitude # Absent /\ q.longitude # Absent
         THEN Some(Min(OrElse(q.radius, 10), 100)) ELSE Absent,
     limit |-> Some(Min(OrElse(q.limit, 50), 100)),
     offset |-> Some(OrElse(q.offset, 0)),
     spotType |->
         IF q.spot_type # Absent /\ Get(q.spot_type) \in SpotType
         THEN q.spot_type ELSE Absent,
     minRating |->
         IF q.min_rating # Absent /\ Get(q.min_rating) >= 0 /\ Get(q.min_rating) <= 50
         THEN q.min_rating ELSE Absent,
     safetyPriority |->
         IF q.safety_priority # Absent
            /\ Get(q.safety_priority) \in {"high", "medium", "low"}
         THEN q.safety_priority ELSE Absent]

FilteredRoute(q, sp, pf) ==
    {Answer(q, 200, r, Get(FilteredFilters(q).limit)) :
        r \in getSpotsFiltered(FilteredFilters(q), sp, pf)}

\* GET /for-mode/:mode
ForModeRoute(q, sp, pf) ==
    IF Get(q.mode) \notin TransportMode THEN {Answer(q, 400, <<>>, 0)}
    ELSE {Answer(q, 200, r, OrElse(q.limit, 50)) :
             r \in getSpotsByTransportModeQuality(
                      Get(q.mode),
                      [NoFilters EXCEPT !.latitude = q.latitude,
                                        !.longitude = q.longitude,
                                        !.radius = q.radius,
                                        !.limit = q.limit,
                                        !.offset = q.offset],
                      q.min_effectiveness, sp, pf)}

\* GET /
ListRoute(q, sp) ==
    LET limit == IF Truthy(q.limit) THEN Get(q.limit) ELSE 50
        offset == IF Truthy(q.offset) THEN Get(q.offset) ELSE 0
    IN  IF \/ limit > 100
           \/ q.spot_type # Absent /\ Get(q.spot_type) \notin SpotType
           \/ Truthy(q.min_rating) /\ (Get(q.min_rating) < 0 \/ Get(q.min_rating) > 50)
        THEN {Answer(q, 400, <<>>, 0)}
        ELSE {Answer(q, 200, r, limit) :
                 r \in getAllSpots([limit |-> Some(limit), offset |-> Some(offset),
                                    spot_type |-> q.spot_type,
                                    is_verified |-> q.is_verified,
                                    min_rating |-> q.min_rating], sp)}

\* GET /nearby
NearbyRoute(q, sp) ==
    LET radius == IF Truthy(q.radius) THEN Get(q.radius) ELSE 10
        limit == IF Truthy(q.limit) THEN Get(q.limit) ELSE 20
    IN  IF \/ ~Truthy(q.latitude) \/ ~Truthy(q.longitude)
           \/ Get(q.latitude) < 0 - 90 * UnitsPerDegree
           \/ Get(q.latitude) > 90 * UnitsPerDegree
           \/ Get(q.longitude) < 0 - 180 * UnitsPerDegree
           \/ Get(q.longitude) > 180 * UnitsPerDegree
           \/ radius <= 0 \/ radius > 100
        THEN {Answer(q, 400, <<>>, 0)}
        ELSE {Answer(q, 200, r, limit) :
                 r \in getNearbySpots(Get(q.latitude), Get(q.longitude), radius, limit, sp)}

\* GET /:id
ByIdRoute(q, sp) ==
    IF SpotFound(sp, Get(q.id)) THEN {Answer(q, 200, <<Get(q.id)>>, 0)}
    ELSE {Answer(q, 404, <<>>, 0)}

\* The responses a discovery request may get on the tables (sp, pf).
Respond(q, sp, pf) ==
    CASE q.route = "filtered" -> FilteredRoute(q, sp, pf)
      [] q.route = "for-mode" -> ForModeRoute(q, sp, pf)
      [] q.route = "list" -> ListRoute(q, sp)
      [] q.route = "nearby" -> NearbyRoute(q, sp)
      [] q.route = "by-id" -> ByIdRoute(q, sp)

\* A discovery request is answered.
Discover(q) ==
    /\ \E r \in Respond(q, spots, profiles) : result' = r
    /\ UNCHANGED <<tripSpots, trips, magic, accepted, clock, issued, magicTokens, userEmails, verify, verifications, modeRatings, badges, trust, now, savedReview, spots, reviews, devUser, pc, call,
                   avg, profiles, response>>

\* A row comes into the spots table by other means than createSpot (an import,
\* a moderator's edit): any of the entity's columns may be set.
SeedSpot(cap, row) ==
    /\ Len(spots) < cap
    /\ spots' = Append(spots, row)
    /\ result' = NoResult
    /\ UNCHANGED <<tripSpots, trips, magic, accepted, clock, issued, magicTokens, userEmails, verify, verifications, modeRatings, badges, trust, now, savedReview, reviews, devUser, pc, call, avg,
                   profiles, response>>

\* ------------------------------------------------ discovery specifications
QuerySpots == 4
BigStore == 101

Q(route) == [NoQuery EXCEPT !.route = route]

SeedRow(lat, lon, type, modes, ratings) ==
    [NewSpot(lat, lon, type) EXCEPT !.transport_modes = modes,
                                    !.mode_ratings = ratings]

\* The table QuerySpec starts from: rows 1 km, 5 km and 20 km north of the
\* point (1, 1).
QuerySeeds ==
    <<SeedRow(2, 1, "rest_stop", {"hitchhiking"},
              {[mode |-> "hitchhiking", safety |-> 45, effectiveness |-> 45,
                review_count |-> 2]}),
      SeedRow(6, 1, "other", {"cycling", "walking"}, {}),
      SeedRow(21, 1, "rest_stop", {}, {})>>

\* Profiles: user 1 has none, user 2 opts out of mode filtering, every other
\* user travels by bicycle.
QueryProfiles ==
    [u \in Users |->
        IF u = 1 THEN Absent
        ELSE Some([travel_modes |-> {"cycling"}, primary_mode |-> "cycling",
                   show_all_spots |-> (u = 2), safety_priority |-> "high"])]

\* Search centres: none; the point (1, 1) with the default radius; a point on
\* the equator, latitude 0, with radius 10.
At(q, lat, lon, radius) ==
    [q EXCEPT !.latitude = lat, !.longitude = lon, !.radius = radius]

Centres(q) ==
    {q, At(q, Some(1), Some(1), Absent), At(q, Some(0), Some(1), Some(10))}

FilteredRequests ==
    {[q EXCEPT !.limit = l[1], !.offset = l[2]] :
        q \in Centres(Q("filtered")),
        l \in {<<Absent, Absent>>, <<Some(1), Absent>>, <<Some(1), Some(1)>>}}
    \cup {[Q("filtered") EXCEPT !.transport_modes = Some(m)] :
             m \in {{"hitchhiking"}, {"cycling", "van_life"}, {"flying"}}}
    \cup {[Q("filtered") EXCEPT !.spot_type = Some(t)] : t \in {"rest_stop", "castle"}}
    \cup {[Q("filtered") EXCEPT !.min_rating = Some(r)] : r \in {0, 40, 60}}
    \cup {[Q("filtered") EXCEPT !.safety_priority = Some(p)] :
             p \in {"high", "medium", "low"}}
    \cup {[Q("filtered") EXCEPT !.user = Some(u)] : u \in Users}
    \cup {[Q("filtered") EXCEPT !.limit = Some(150)]}
    \cup {At(Q("filtered"), Some(1), Some(1), Some(200)),
          At(Q("filtered"), Some(90 * UnitsPerDegree + 1), Some(1), Absent)}

ForModeRequests ==
    {[q EXCEPT !.mode = Some("hitchhiking")] : q \in Centres(Q("for-mode"))}
    \cup {[Q("for-mode") EXCEPT !.mode = Some("flying")],
          [Q("for-mode") EXCEPT !.mode = Some("hitchhiking"), !.limit = Some(150)]}

ListRequests ==
    {[Q("list") EXCEPT !.limit = l[1], !.offset = l[2]] :
        l \in {<<Absent, Absent>>, <<Some(1), Some(1)>>, <<Some(150), Absent>>}}
    \cup {[Q("list") EXCEPT !.spot_type = Some(t)] : t \in {"rest_stop", "castle"}}
    \cup {[Q("list") EXCEPT !.min_rating = Some(r)] : r \in {40, 60}}
    \cup {[Q("list") EXCEPT !.is_verified = Some(v)] : v \in BOOLEAN}

NearbyRequests ==
    {[q EXCEPT !.limit = l] : q \in Centres(Q("nearby")), l \in {Absent, Some(1)}}
    \cup {At(Q("nearby"), Some(1), Some(1), Some(200)),
          At(Q("nearby"), Some(90 * UnitsPerDegree + 1), Some(1), Absent)}

ByIdRequests == {[Q("by-id") EXCEPT !.id = Some(i)] : i \in 1..(QuerySpots + 1)}

QueryRequests ==
    FilteredRequests \cup ForModeRequests \cup ListRequests \cup NearbyRequests
    \cup ByIdRequests

QueryInit ==
    /\ spots = QuerySeeds
    /\ reviews = EmptyBag
    /\ devUser = FALSE
    /\ pc = Idle
    /\ call = [p \in Procs |-> NoCall]
    /\ avg = [p \in Procs |-> NoAvg]
    /\ profiles = QueryProfiles
    /\ response = [p \in Procs |-> 0]
    /\ result = NoResult
    /\ badges = EmptyBag
    /\ trust = <<>>
    /\ now = 0
    /\ savedReview = [p \in Procs |-> FALSE]
    /\ modeRatings = NoModeRatings
    /\ verifications = EmptyBag
    /\ verify = [p \in Procs |-> NoVerify]
    /\ userEmails = {}
    /\ magicTokens = {}
    /\ issued = <<>>
    /\ clock = 0
    /\ accepted = EmptyBag
    /\ magic = [p \in Procs |-> NoMagic]
    /\ trips = {}
    /\ tripSpots = EmptyBag

\* QuerySpec: discovery requests over a small table of varied spots.
QueryCreate == createSpot(QuerySpots, 2, 1, "other")
QueryDelete == \E id \in 1..QuerySpots : deleteSpot(id)
QueryReview ==
    \E s \in {1, 2} : addSpotReview(s, ReviewData(1, "hitchhiking", 5, 4, 4))
QueryDiscover == \E q \in QueryRequests : Discover(q)

QueryNext == QueryCreate \/ QueryDelete \/ QueryReview \/ QueryDiscover

QuerySpec == QueryInit /\ [][QueryNext]_vars

\* LimitSpec: discovery requests over a table of up to BigStore spots, spot i
\* lying i - 1 km north of the point (1, 1).
LimitRequests ==
    {[q EXCEPT !.limit = l] :
        q \in {Q("filtered"), Q("list"), At(Q("filtered"), Some(1), Some(1), Some(100)),
               At(Q("nearby"), Some(1), Some(1), Some(100)),
               [Q("for-mode") EXCEPT !.mode = Some("hitchhiking")]},
        l \in {Absent, Some(100), Some(150)}}

LimitSeed == SeedSpot(BigStore, SeedRow(Len(spots) + 1, 1, "other", {}, {}))
LimitDiscover == \E q \in LimitRequests : Discover(q)

LimitNext == LimitSeed \/ LimitDiscover

LimitSpec == Init /\ [][LimitNext]_vars

\* ------------------------------------------------------- per-mode statistics
\* calculateAverage(numbers), the numbers given by their sum and their count:
\* Math.round(mean * 10) / 10, in tenths.
calculateAverage(sum, n) ==
    IF n = 0 THEN 0 ELSE (20 * sum + n) \div (2 * n)

\* spot.reviews.filter(review => review.transport_mode === mode)
modeReviews(tbl, mode) == {r \in ReviewRows(tbl) : r.transport_mode = mode}

\* The sum of an optional column over the rows that have a value in it.
RECURSIVE SumSupplied(_, _, _)
SumSupplied(tbl, rows, field) ==
    IF rows = {} THEN 0
    ELSE LET r == CHOOSE x \in rows : TRUE
         IN  (IF r[field] = Absent THEN 0 ELSE CopiesIn(r, tbl) * Get(r[field]))
             + SumSupplied(tbl, rows \ {r}, field)

\* An extra field that is set whenever the mode has reviews, the reviews
\* without a value counting as 0.
ExtraFieldZeroFilled(tbl, rows, field) ==
    Some(calculateAverage(SumSupplied(tbl, rows, field), CountOver(tbl, rows)))

\* A mode-specific extra field: the column's values that are neither null
\* nor undefined, and their average if there is any.
ExtraField(tbl, rows, field) ==
    LET supplied == {r \in rows : r[field] # Absent}
    IN  IF CountOver(tbl, supplied) > 0
        THEN Some(calculateAverage(SumSupplied(tbl, supplied, field),
                                   CountOver(tbl, supplied)))
        ELSE Absent

\* modeRatings[mode] for a mode with reviews.
ModeEntry(tbl, mode) ==
    LET rows == modeReviews(tbl, mode)
    IN  [mode |-> mode,
         safety |-> calculateAverage(SumOver(tbl, rows, "safety_rating"),
                                     CountOver(tbl, rows)),
         effectiveness |-> calculateAverage(SumOver(tbl, rows, "effectiveness_rating"),
                                            CountOver(tbl, rows)),
         review_count |-> CountOver(tbl, rows),
         avg_wait_time |->
             IF mode = "hitchhiking" THEN ExtraField(tbl, rows, "wait_time_minutes")
             ELSE Absent,
         legal_status |->
             IF mode = "van_life" THEN ExtraField(tbl, rows, "legal_status")
             ELSE Absent,
         facilities |->
             IF mode \in {"cycling", "walking"}
             THEN ExtraField(tbl, rows, "facility_rating") ELSE Absent,
         accessibility |->
             IF mode \in {"cycling", "walking"}
             THEN ExtraField(tbl, rows, "accessibility_rating") ELSE Absent]

\* The spot's reviews relation as findOne loads it.
LoadedReviews(tbl, s) ==
    LET rows == ReviewsOfSpot(tbl, s) IN [r \in rows |-> CopiesIn(r, tbl)]

\* updateSpotAggregatedRatings(spotId): nothing without the spot; else one
\* entry per transport mode that has reviews.  The object is built and the
\* method returns.
updateSpotAggregatedRatings(s) ==
    /\ IF s \in SpotIdsOf(spots)
       THEN LET loaded == LoadedReviews(reviews, s)
            IN  modeRatings' =
                    [spot |-> s, reviews |-> loaded,
                     stats |-> {ModeEntry(loaded, mode) :
                                   mode \in {m \in TransportMode :
                                                modeReviews(loaded, m) # {}}}]
       ELSE modeRatings' = modeRatings
    /\ UNCHANGED <<tripSpots, trips, magic, accepted, clock, issued, magicTokens, userEmails, verify, verifications, savedReview, badges, trust, now, spots, reviews, devUser, pc,
                   call, avg, profiles, response, result>>

\* ModeSpec: reviews of several modes, with and without the optional values,
\* and the statistics computed over them.
ModeSpots == 1

\* Odd users hitchhike, with or without a wait time; even users cycle, with
\* or without facility and accessibility ratings, or live in a van.
ModeReviewInputs ==
    UNION {IF u % 2 = 1
           THEN {ReviewData(u, "hitchhiking", 3, 4, 4),
                 ReviewData(u, "hitchhiking", 3, 4, 4)
                     @@ [wait_time_minutes |-> Some(5 * u + 5)]}
           ELSE {ReviewData(u, "cycling", 4, 2, 3),
                 ReviewData(u, "cycling", 4, 2, 3) @@ [facility_rating |-> Some(u)],
                 ReviewData(u, "cycling", 4, 2, 3)
                     @@ [facility_rating |-> Some(5), accessibility_rating |-> Some(2)],
                 ReviewData(u, "van_life", 2, 2, 2) @@ [legal_status |-> Some(1)]} :
           u \in Users}

ModeCreate == createSpot(ModeSpots, 2, 1, "other")
ModeReview == \E s \in 1..ModeSpots, d \in ModeReviewInputs : addSpotReview(s, d)
ModeAggregate == \E s \in 1..(ModeSpots + 1) : updateSpotAggregatedRatings(s)

ModeNext == ModeCreate \/ ModeReview \/ ModeAggregate

ModeSpec == Init /\ [][ModeNext]_vars

\* ------------------------------------------------------------ user profiles
\* A user_profiles row with the column defaults of the entity.  reviewer_rating
\* is a decimal(3,2) column, kept in hundredths (125 is 1.25); created_at is in
\* days; countries_visited and languages are kept by their lengths.
NewProfile(modes, primary) ==
    [travel_modes |-> modes, primary_mode |-> primary,
     show_all_spots |-> FALSE, safety_priority |-> "high",
     email_verified |-> FALSE, phone_verified |-> FALSE,
     social_connected |-> FALSE, community_vouches |-> 0,
     total_reviews |-> 0, helpful_reviews |-> 0, reviewer_rating |-> 0,
     spots_added |-> 0, verified_spots |-> 0,
     countries_visited |-> 0, languages |-> 0, created_at |-> 0]

\* userProfileRepository.findOne({ where: { user_id } }) found a row.
ProfileFound(pf, u) == u \in DOMAIN pf /\ pf[u] # Absent

\* Math.floor((Date.now() - created_at) / day)
MembershipDays(row, today) == today - row.created_at

\* A number of points in the unit the score is summed in: 1/150 point, so
\* that reviewer_rating * 2 (hundredths * 3) and membershipDays / 30 (days * 5)
\* are whole.
Points(n) == 150 * n

\* Math.round on a sum in 1/150 points: the nearest integer, halves upwards.
MathRound(x) == (2 * x + Points(1)) \div (2 * Points(1))

\* A score that is returned as it was summed, without Math.min(.., 100).
TrustScoreUncapped(row, today) ==
    MathRound(
        (IF row.email_verified THEN Points(15) ELSE 0)
        + (IF row.phone_verified THEN Points(15) ELSE 0)
        + (IF row.social_connected THEN Points(10) ELSE 0)
        + Points(Min(row.helpful_reviews * 2, 20))
        + Points(Min(row.spots_added * 3, 15))
        + Min(row.reviewer_rating * 3, Points(10))
        + Min(MembershipDays(row, today) * 5, Points(10))
        + Points(Min(row.community_vouches * 2, 10)))

\* A score whose social_connected test is negated.
TrustScoreSocialNegated(row, today) ==
    Min(MathRound(
        (IF row.email_verified THEN Points(15) ELSE 0)
        + (IF row.phone_verified THEN Points(15) ELSE 0)
        + (IF ~row.social_connected THEN Points(10) ELSE 0)
        + Points(Min(row.helpful_reviews * 2, 20))
        + Points(Min(row.spots_added * 3, 15))
        + Min(row.reviewer_rating * 3, Points(10))
        + Min(MembershipDays(row, today) * 5, Points(10))
        + Points(Min(row.community_vouches * 2, 10))), 100)

\* calculateTrustScore on a profile row, Date.now() being today.
TrustScore(row, today) ==
    LET verification ==
            (IF row.email_verified THEN Points(15) ELSE 0)
            + (IF row.phone_verified THEN Points(15) ELSE 0)
            + (IF row.social_connected THEN Points(10) ELSE 0)
        reviewScore == Points(Min(row.helpful_reviews * 2, 20))
        contributionScore == Points(Min(row.spots_added * 3, 15))
        qualityScore == Min(row.reviewer_rating * 3, Points(10))
        timeScore == Min(MembershipDays(row, today) * 5, Points(10))
        vouchScore == Points(Min(row.community_vouches * 2, 10))
        score == verification + reviewScore + contributionScore + qualityScore
                 + timeScore + vouchScore
    IN  Min(MathRound(score), 100)

\* What one calculateTrustScore call read and what it returned.
TrustCall(u, row, today, out) ==
    [user |-> u, profile |-> row, days |-> today, out |-> out]

\* calculateTrustScore(userId): 0 without a profile.  trust keeps the last two
\* calls.
calculateTrustScore(u) ==
    /\ trust' = <<IF ProfileFound(profiles, u)
                  THEN TrustCall(u, profiles[u], now,
                                 TrustScore(Get(profiles[u]), now))
                  ELSE TrustCall(u, Absent, now, 0)>>
                \o (IF trust = <<>> THEN <<>> ELSE <<trust[1]>>)
    /\ UNCHANGED <<tripSpots, trips, magic, accepted, clock, issued, magicTokens, userEmails, verify, verifications, modeRatings, spots, reviews, devUser, pc, call, avg, profiles, response,
                   result, badges, now, savedReview>>

\* One column of a profile row is written (a partial update of the profile
\* repository).
SetProfileColumn(u, column, v) ==
    /\ ProfileFound(profiles, u)
    /\ Get(profiles[u])[column] # v
    /\ profiles' = [profiles EXCEPT ![u] = Some([Get(profiles[u]) EXCEPT ![column] = v])]
    /\ UNCHANGED <<tripSpots, trips, magic, accepted, clock, issued, magicTokens, userEmails, verify, verifications, modeRatings, spots, reviews, devUser, pc, call, avg, response, result,
                   badges, trust, now, savedReview>>

\* Time passes: Date.now() moves on to a later day.
Tick(day) ==
    /\ day > now
    /\ now' = day
    /\ UNCHANGED <<tripSpots, trips, magic, accepted, clock, issued, magicTokens, userEmails, verify, verifications, modeRatings, spots, reviews, devUser, pc, call, avg, profiles, response,
                   result, badges, trust, savedReview>>

\* ------------------------------------------------------------------ badges
\* The user_badges rows of one user with one key.
BadgeCount(tbl, u, key) == CopiesIn([user_id |-> u, badge_key |-> key], tbl)

\* The keys of the badges a user holds.
BadgeKeysOf(tbl, u) == {b.badge_key : b \in {r \in BagToSet(tbl) : r.user_id = u}}

\* An award that inserts its row without looking for an existing one.
awardBadgeUnchecked(tbl, u, key) ==
    tbl (+) SetToBag({[user_id |-> u, badge_key |-> key]})

\* awardBadge: findOne by (user_id, badge_key), and a new row when there is
\* none.
awardBadge(tbl, u, key) ==
    IF BadgeCount(tbl, u, key) > 0 THEN tbl
    ELSE tbl (+) SetToBag({[user_id |-> u, badge_key |-> key]})

\* awardBadge for each of a set of keys, one after the other.
RECURSIVE AwardAll(_, _, _)
AwardAll(tbl, u, keys) ==
    IF keys = {} THEN tbl
    ELSE LET key == CHOOSE k \in keys : TRUE
         IN  AwardAll(awardBadge(tbl, u, key), u, keys \ {key})

\* Only the key of the highest tier the counter has reached.
ReachedHighest(counter, family) ==
    {b.key : b \in {x \in family :
                       /\ counter >= x.threshold
                       /\ \A y \in family :
                              counter >= y.threshold => y.threshold <= x.threshold}}

\* The keys of a badge family whose threshold the counter has reached.
Reached(counter, family) == {b.key : b \in {x \in family : counter >= x.threshold}}

\* checkTrustBadges: the keys it calls awardBadge with.
TrustBadges(row) ==
    (IF row.email_verified THEN {"email_verified"} ELSE {})
    \cup (IF row.phone_verified THEN {"phone_verified"} ELSE {})
    \cup (IF row.social_connected THEN {"social_connected"} ELSE {})

\* checkReviewerBadges
ReviewerBadges(row) ==
    Reached(row.helpful_reviews,
            {[threshold |-> 1, key |-> "first_reviewer"],
             [threshold |-> 5, key |-> "helpful_reviewer_bronze"],
             [threshold |-> 15, key |-> "helpful_reviewer_silver"],
             [threshold |-> 50, key |-> "helpful_reviewer_gold"]})

\* checkContributorBadges
ContributorBadges(row) ==
    Reached(row.spots_added,
            {[threshold |-> 1, key |-> "first_spot"],
             [threshold |-> 5, key |-> "spot_contributor_bronze"],
             [threshold |-> 15, key |-> "spot_contributor_silver"],
             [threshold |-> 50, key |-> "spot_contributor_gold"]})
    \cup (IF row.verified_spots >= 3 THEN {"verified_contributor"} ELSE {})

\* checkExplorerBadges
ExplorerBadges(row) ==
    Reached(row.countries_visited,
            {[threshold |-> 3, key |-> "country_explorer_bronze"],
             [threshold |-> 10, key |-> "country_explorer_silver"],
             [threshold |-> 25, key |-> "country_explorer_gold"]})
    \cup (IF Cardinality(row.travel_modes) >= 3 THEN {"multimodal_master"} ELSE {})
    \cup (IF row.languages >= 3 THEN {"polyglot"} ELSE {})

\* checkCommunityBadges
CommunityBadges(row, today) ==
    (IF MembershipDays(row, today) >= 365 THEN {"veteran_member"} ELSE {})
    \cup (IF row.community_vouches >= 5 THEN {"trusted_by_community"} ELSE {})

\* One check...Badges method on the tables: nothing without a profile.
CheckBadges(tbl, pf, u, keys) ==
    IF ProfileFound(pf, u) THEN AwardAll(tbl, u, keys) ELSE tbl

\* An evaluation that leaves the user exactly the badges the profile earns at
\* the moment, dropping the others.
CheckAndAwardRevoking(tbl, pf, u, today) ==
    IF ~ProfileFound(pf, u) THEN tbl
    ELSE LET row == Get(pf[u])
             due == TrustBadges(row) \cup ReviewerBadges(row)
                    \cup ContributorBadges(row) \cup ExplorerBadges(row)
                    \cup CommunityBadges(row, today)
             others == {b \in BagToSet(tbl) : b.user_id # u}
         IN  AwardAll([b \in others |-> tbl[b]], u, due)

\* checkAndAwardBadges on the tables: the five checks in their order.
CheckAndAward(tbl, pf, u, today) ==
    IF ~ProfileFound(pf, u) THEN tbl
    ELSE LET row == Get(pf[u])
             t1 == AwardAll(tbl, u, TrustBadges(row))
             t2 == AwardAll(t1, u, ReviewerBadges(row))
             t3 == AwardAll(t2, u, ContributorBadges(row))
             t4 == AwardAll(t3, u, ExplorerBadges(row))
         IN  AwardAll(t4, u, CommunityBadges(row, today))

\* checkAndAwardBadges(userId)
checkAndAwardBadges(u) ==
    /\ badges' = CheckAndAward(badges, profiles, u, now)
    /\ UNCHANGED <<tripSpots, trips, magic, accepted, clock, issued, magicTokens, userEmails, verify, verifications, modeRatings, spots, reviews, devUser, pc, call, avg, profiles, response,
                   result, trust, now, savedReview>>

\* The user id the routes hand to createSpot as created_by_id and to
\* addSpotReview as user_id.
DevUserId == 1

\* spots.created_by_id: the route's constant for every spot.
CreatedById(row) == DevUserId

\* spot_reviews.helpful_votes: the column default; no operation writes it.
HelpfulVotes(r) == 0

\* The reviews of one user, and the sum of a function over them.
ReviewsOfUser(tbl, u) == {r \in ReviewRows(tbl) : r.user_id = u}

RECURSIVE VotesOver(_, _)
VotesOver(tbl, rows) ==
    IF rows = {} THEN 0
    ELSE LET r == CHOOSE x \in rows : TRUE
         IN  CopiesIn(r, tbl) * HelpfulVotes(r) + VotesOver(tbl, rows \ {r})

\* Math.min(avgHelpfulness / 2, 5) stored in a decimal(3,2) column, in
\* hundredths: votes / n / 2, rounded to two decimals.
ReviewerRating(votes, n) ==
    IF n = 0 THEN 0 ELSE Min((100 * votes + n) \div (2 * n), 500)

\* The profile row updateProfileStats saves.
StatsRow(row, rv, sp, u) ==
    LET mine == ReviewsOfUser(rv, u)
        n == CountOver(rv, mine)
        created == {i \in SpotIdsOf(sp) : CreatedById(sp[i]) = u}
    IN  [row EXCEPT
            !.total_reviews = n,
            !.helpful_reviews =
                CountOver(rv, {r \in mine : HelpfulVotes(r) >= 3}),
            !.reviewer_rating = ReviewerRating(VotesOver(rv, mine), n),
            !.spots_added = Cardinality(created),
            !.verified_spots = Cardinality({i \in created : sp[i].is_verified})]

\* updateProfileStats(userId): nothing without a profile; else the counters
\* are recomputed and saved, then checkAndAwardBadges runs.
updateProfileStats(u) ==
    /\ IF ProfileFound(profiles, u)
       THEN profiles' = [profiles EXCEPT
                ![u] = Some(StatsRow(Get(profiles[u]), reviews, spots, u))]
       ELSE profiles' = profiles
    /\ badges' = CheckAndAward(badges, profiles', u, now)
    /\ response' = [response EXCEPT ![1] = 200]
    /\ UNCHANGED <<tripSpots, trips, magic, accepted, clock, issued, magicTokens, userEmails, verify, verifications, modeRatings, spots, reviews, devUser, pc, call, avg, result, trust, now,
                   savedReview>>

\* updateExtendedProfile(userId, updates): 404 without a profile; else the
\* given fields are saved and checkExplorerBadges runs.
updateExtendedProfile(u, languages, countriesVisited) ==
    /\ IF ProfileFound(profiles, u)
       THEN /\ profiles' = [profiles EXCEPT ![u] = Some([Get(profiles[u]) EXCEPT
                    !.languages = OrElse(languages, @),
                    !.countries_visited = OrElse(countriesVisited, @)])]
            /\ badges' = CheckBadges(badges, profiles', u,
                                     ExplorerBadges(Get(profiles'[u])))
            /\ response' = [response EXCEPT ![1] = 200]
       ELSE /\ response' = [response EXCEPT ![1] = 404]
            /\ UNCHANGED <<profiles, badges>>
    /\ UNCHANGED <<tripSpots, trips, magic, accepted, clock, issued, magicTokens, userEmails, verify, verifications, modeRatings, spots, reviews, devUser, pc, call, avg, result, trust, now,
                   savedReview>>

VerificationType ==
    {"email", "phone", "social_facebook", "social_google", "community_vouch"}

\* The profile row addVerification saves for a verification type.
VerifiedRow(row, type) ==
    CASE type = "email" -> [row EXCEPT !.email_verified = TRUE]
      [] type = "phone" -> [row EXCEPT !.phone_verified = TRUE]
      [] type \in {"social_facebook", "social_google"} ->
            [row EXCEPT !.social_connected = TRUE]
      [] type = "community_vouch" ->
            [row EXCEPT !.community_vouches = @ + 1]

\* trustVerificationRepository.save(verification): one more row.
SaveVerification(tbl, u, type) == tbl (+) SetToBag({[user_id |-> u, type |-> type]})

\* addVerification(userId, type) with no other request in flight: the
\* trust_verifications row, then with a profile the flag or the vouch counter
\* and checkTrustBadges.
addVerification(u, type) ==
    /\ verifications' = SaveVerification(verifications, u, type)
    /\ IF ProfileFound(profiles, u)
       THEN /\ profiles' = [profiles EXCEPT
                    ![u] = Some(VerifiedRow(Get(profiles[u]), type))]
            /\ badges' = CheckBadges(badges, profiles', u,
                                     TrustBadges(Get(profiles'[u])))
       ELSE UNCHANGED <<profiles, badges>>
    /\ response' = [response EXCEPT ![1] = 200]
    /\ UNCHANGED <<tripSpots, trips, magic, accepted, clock, issued, magicTokens, userEmails, verify, modeRatings, spots, reviews, devUser, pc, call, avg,
                   result, trust, now, savedReview>>

\* The same call as request p runs it, one store statement per step.
\* trustVerificationRepository.save(verification)
VerifyBegin(p, u, type) ==
    /\ verify[p].pc = "idle"
    /\ verifications' = SaveVerification(verifications, u, type)
    /\ verify' = [verify EXCEPT ![p] = [pc |-> "findOne", user |-> u, type |-> type,
                                        row |-> Absent, keys |-> <<>>]]
    /\ response' = [response EXCEPT ![p] = 0]
    /\ UNCHANGED <<tripSpots, trips, magic, accepted, clock, issued, magicTokens, userEmails, modeRatings, spots, reviews, devUser, pc, call, avg, profiles,
                   result, badges, trust, now, savedReview>>

\* userProfileRepository.findOne(...): the row is loaded, or the call ends.
VerifyFindOne(p) ==
    /\ verify[p].pc = "findOne"
    /\ IF ProfileFound(profiles, verify[p].user)
       THEN /\ verify' = [verify EXCEPT ![p].pc = "save",
                                        ![p].row = profiles[verify[p].user]]
            /\ UNCHANGED response
       ELSE /\ verify' = [verify EXCEPT ![p] = NoVerify]
            /\ response' = [response EXCEPT ![p] = 200]
    /\ UNCHANGED <<tripSpots, trips, magic, accepted, clock, issued, magicTokens, userEmails, verifications, modeRatings, spots, reviews, devUser, pc, call,
                   avg, profiles, result, badges, trust, now, savedReview>>

\* userProfileRepository.save(profile): the loaded row with the flag set or
\* the counter raised is written back, whatever the table holds by now.
VerifySave(p) ==
    /\ verify[p].pc = "save"
    /\ profiles' = [profiles EXCEPT
           ![verify[p].user] = Some(VerifiedRow(Get(verify[p].row), verify[p].type))]
    /\ verify' = [verify EXCEPT ![p].pc = "checkTrustBadges"]
    /\ UNCHANGED <<tripSpots, trips, magic, accepted, clock, issued, magicTokens, userEmails, verifications, modeRatings, spots, reviews, devUser, pc, call,
                   avg, response, result, badges, trust, now, savedReview>>

\* The keys checkTrustBadges calls awardBadge with, in its order.
TrustKeys(row) ==
    SelectSeq(<<"email_verified", "phone_verified", "social_connected">>,
              LAMBDA key : key \in TrustBadges(row))

\* Request p goes on to the keys left, or its call ends.
VerifyGoOn(p, keys) ==
    IF keys = <<>>
    THEN /\ verify' = [verify EXCEPT ![p] = NoVerify]
         /\ response' = [response EXCEPT ![p] = 200]
    ELSE /\ verify' = [verify EXCEPT ![p].pc = "awardBadge", ![p].keys = keys]
         /\ UNCHANGED response

\* checkTrustBadges: its findOne of the profile.
VerifyCheckTrust(p) ==
    /\ verify[p].pc = "checkTrustBadges"
    /\ VerifyGoOn(p, IF ProfileFound(profiles, verify[p].user)
                     THEN TrustKeys(Get(profiles[verify[p].user])) ELSE <<>>)
    /\ UNCHANGED <<tripSpots, trips, magic, accepted, clock, issued, magicTokens, userEmails, verifications, modeRatings, spots, reviews, devUser, pc, call,
                   avg, profiles, result, badges, trust, now, savedReview>>

\* awardBadge: userBadgeRepository.findOne(...) for the next key.
VerifyAwardBadge(p) ==
    /\ verify[p].pc = "awardBadge"
    /\ IF BadgeCount(badges, verify[p].user, Head(verify[p].keys)) > 0
       THEN VerifyGoOn(p, Tail(verify[p].keys))
       ELSE /\ verify' = [verify EXCEPT ![p].pc = "saveBadge"]
            /\ UNCHANGED response
    /\ UNCHANGED <<tripSpots, trips, magic, accepted, clock, issued, magicTokens, userEmails, verifications, modeRatings, spots, reviews, devUser, pc, call,
                   avg, profiles, result, badges, trust, now, savedReview>>

\* awardBadge: userBadgeRepository.save(badge); the table has no constraint
\* on (user_id, badge_key).
VerifySaveBadge(p) ==
    /\ verify[p].pc = "saveBadge"
    /\ badges' = badges (+) SetToBag({[user_id |-> verify[p].user,
                                       badge_key |-> Head(verify[p].keys)]})
    /\ VerifyGoOn(p, Tail(verify[p].keys))
    /\ UNCHANGED <<tripSpots, trips, magic, accepted, clock, issued, magicTokens, userEmails, verifications, modeRatings, spots, reviews, devUser, pc, call,
                   avg, profiles, result, trust, now, savedReview>>

\* ---------------------------------------------------------- PUT /me/profile
\* The elements of a sequence.
Range(q) == {q[i] : i \in 1..Len(q)}

\* An update that is saved whatever primary_mode and travel_modes it leaves.
UpdateUserProfileUnchecked(pf, u, updates) ==
    IF ~ProfileFound(pf, u) THEN [status |-> 404, profiles |-> pf]
    ELSE LET row == Get(pf[u])
             modes == IF updates.travelModes = Absent THEN row.travel_modes
                      ELSE Range(Get(updates.travelModes))
             primary == OrElse(updates.primaryMode, row.primary_mode)
         IN  [status |-> 200,
              profiles |-> [pf EXCEPT ![u] = Some([row EXCEPT
                               !.travel_modes = modes,
                               !.primary_mode = primary])]]

\* updateUserProfile(userId, updates): 404 without a profile; Conflict when
\* the primary mode the update leaves is not among the travel modes it
\* leaves; else the row is saved.
UpdateUserProfileRun(pf, u, updates) ==
    IF ~ProfileFound(pf, u) THEN [status |-> 404, profiles |-> pf]
    ELSE LET row == Get(pf[u])
             modes == IF updates.travelModes = Absent THEN row.travel_modes
                      ELSE Range(Get(updates.travelModes))
             primary == OrElse(updates.primaryMode, row.primary_mode)
         IN  IF primary \notin modes
             THEN [status |-> 409, profiles |-> pf]
             ELSE [status |-> 200,
                   profiles |-> [pf EXCEPT ![u] = Some([row EXCEPT
                                    !.travel_modes = modes,
                                    !.primary_mode = primary])]]

\* createUserProfile(userId, data): travel_modes must be a non-empty set and
\* primary_mode one of its members.
CreateUserProfileRun(pf, u, travelModes, primaryMode, today) ==
    IF travelModes = Absent \/ Get(travelModes) = <<>>
    THEN [status |-> 400, profiles |-> pf]
    ELSE IF primaryMode = Absent \/ Get(primaryMode) \notin Range(Get(travelModes))
    THEN [status |-> 409, profiles |-> pf]
    ELSE [status |-> 201,
          profiles |-> [pf EXCEPT ![u] = Some([NewProfile(Range(Get(travelModes)),
                                                          Get(primaryMode))
                                               EXCEPT !.created_at = today])]]

\* PUT /me/profile: updateUserProfile, and on its 404 createUserProfile with
\* primaryMode: updates.primaryMode || updates.travelModes[0], which throws
\* (500) when neither is given.
PutMeProfileRun(pf, u, updates, today) ==
    LET upd == UpdateUserProfileRun(pf, u, updates)
    IN  IF upd.status # 404 THEN upd
        ELSE IF updates.primaryMode # Absent
        THEN CreateUserProfileRun(pf, u, updates.travelModes, updates.primaryMode, today)
        ELSE IF updates.travelModes = Absent
        THEN [status |-> 500, profiles |-> pf]
        ELSE CreateUserProfileRun(pf, u, updates.travelModes,
                 IF Get(updates.travelModes) = <<>> THEN Absent
                 ELSE Some(Get(updates.travelModes)[1]), today)

PutMeProfile(u, updates) ==
    LET run == PutMeProfileRun(profiles, u, updates, now)
    IN  /\ profiles' = run.profiles
        /\ response' = [response EXCEPT ![1] = run.status]
        /\ UNCHANGED <<tripSpots, trips, magic, accepted, clock, issued, magicTokens, userEmails, verify, verifications, modeRatings, spots, reviews, devUser, pc, call, avg, result, badges,
                       trust, now, savedReview>>

\* ----------------------------------------------------- profile specification
\* ProfileSpec: PUT /me/profile requests of users with and without a profile.

ProfileUsers == Users

ProfileUpdates ==
    [travelModes : {Absent, Some(<<>>), Some(<<"walking">>),
                    Some(<<"hitchhiking", "cycling", "walking">>)},
     primaryMode : {Absent, Some("cycling"), Some("walking")}]

ProfilePut == \E u \in ProfileUsers, updates \in ProfileUpdates : PutMeProfile(u, updates)
ProfileBadges == \E u \in ProfileUsers : checkAndAwardBadges(u)

ProfileNext == ProfilePut \/ ProfileBadges

ProfileSpec == Init /\ [][ProfileNext]_vars

\* ------------------------------------------------------- badge specification
\* BadgeSpec: the profile operations on a user whose profile stands just
\* below or at some badge thresholds (four vouches, day 364 of membership,
\* five helpful reviews or none), beside a user without a profile.
MaxVouches == 5
BadgeSpots == 1

BadgeProfiles ==
    {[NewProfile({"cycling", "walking"}, "cycling") EXCEPT
          !.community_vouches = MaxVouches - 1, !.helpful_reviews = h] : h \in {0, 5}}

BadgeInit ==
    /\ spots = <<>>
    /\ reviews = EmptyBag
    /\ devUser = FALSE
    /\ pc = Idle
    /\ call = [p \in Procs |-> NoCall]
    /\ avg = [p \in Procs |-> NoAvg]
    /\ \E row \in BadgeProfiles :
           profiles = [u \in Users |-> IF u = DevUserId THEN Some(row) ELSE Absent]
    /\ response = [p \in Procs |-> 0]
    /\ result = NoResult
    /\ badges = EmptyBag
    /\ trust = <<>>
    /\ now = 364
    /\ savedReview = [p \in Procs |-> FALSE]
    /\ modeRatings = NoModeRatings
    /\ verifications = EmptyBag
    /\ verify = [p \in Procs |-> NoVerify]
    /\ userEmails = {}
    /\ magicTokens = {}
    /\ issued = <<>>
    /\ clock = 0
    /\ accepted = EmptyBag
    /\ magic = [p \in Procs |-> NoMagic]
    /\ trips = {}
    /\ tripSpots = EmptyBag

\* Review bodies: an acceptable one, and one with effectiveness_rating 6.
BadgeReviewInputs ==
    {ReviewData(DevUserId, "hitchhiking", 2, 3, 3),
     ReviewData(DevUserId, "hitchhiking", 2, 6, 3)}

BadgeCreate == createSpot(BadgeSpots, 2, 1, "other")
BadgeReview ==
    \E s \in 1..BadgeSpots, d \in BadgeReviewInputs : addSpotReview(s, d)
\* The users the operations are called for: the dev user, who has the
\* profile, and one without a profile.
BadgeUsers == {DevUserId, DevUserId + 1}

\* Verifications of the dev user: one of each kind, each once, the community
\* vouches up to MaxVouches.
BadgeVerifications ==
    {<<DevUserId, type>> :
        type \in {"email", "phone", "social_google", "community_vouch"}}

BadgeStats == \E u \in BadgeUsers : updateProfileStats(u)
BadgeExtended ==
    \E u \in BadgeUsers, languages \in {Absent, Some(3)},
       countriesVisited \in {Absent, Some(0), Some(3)} :
        updateExtendedProfile(u, languages, countriesVisited)
BadgeVerify ==
    \E v \in BadgeVerifications :
        /\ IF v[2] = "community_vouch"
           THEN Get(profiles[v[1]]).community_vouches < MaxVouches
           ELSE CopiesIn([user_id |-> v[1], type |-> v[2]], verifications) = 0
        /\ addVerification(v[1], v[2])
BadgeCheck == \E u \in BadgeUsers : checkAndAwardBadges(u)
BadgeTick == Tick(365)

BadgeNext ==
    \/ BadgeCreate \/ BadgeReview \/ BadgeStats \/ BadgeExtended
    \/ BadgeVerify \/ BadgeCheck \/ BadgeTick

BadgeSpec == BadgeInit /\ [][BadgeNext]_vars

\* -------------------------------------------------------------- magic links
\* An e-mail is modelled by the id of the user it belongs to; DevUserId's is
\* dev@vendro.app, a development e-mail.  Tokens are the numbers generation
\* hands out: generateMagicToken() never repeats one.
isDevEmail(e) == e = DevUserId

\* userRepository.findOne({ where: { email } }) found a row.
UserFound(e) == IF isDevEmail(e) THEN devUser ELSE e \in userEmails

\* expiresAt.setMinutes(expiresAt.getMinutes() + 15), in units of 15 minutes.
TokenLife == 1

\* A magic_tokens row as sendMagicLink saves it.
NewMagicToken(t, e, today) ==
    [token |-> t, email |-> e, expires_at |-> today + TokenLife, is_used |-> FALSE]

\* magicTokenRepository.findOne({ where: { token, email, is_used: false } })
UnusedTokens(tbl, t, e) ==
    {r \in tbl : r.token = t /\ r.email = e /\ ~r.is_used}

\* Request p's call ends with the given status.
MagicReturn(p, status) ==
    /\ magic' = [magic EXCEPT ![p] = NoMagic]
    /\ response' = [response EXCEPT ![p] = status]

\* Request p's call goes on at the given statement.
MagicGoto(p, at) ==
    /\ magic' = [magic EXCEPT ![p].pc = at]
    /\ response' = response

\* sendMagicLink, first await: the user lookup.  A missing development user
\* is a 500; any other missing user is created.
SendBegin(p, e) ==
    /\ magic[p].pc = "idle"
    /\ IF UserFound(e)
       THEN /\ magic' = [magic EXCEPT ![p] = [NoMagic EXCEPT !.pc = "delete", !.email = e]]
            /\ response' = [response EXCEPT ![p] = 0]
       ELSE IF isDevEmail(e)
       THEN MagicReturn(p, 500)
       ELSE /\ magic' = [magic EXCEPT ![p] = [NoMagic EXCEPT !.pc = "createNewUser", !.email = e]]
            /\ response' = [response EXCEPT ![p] = 0]
    /\ UNCHANGED <<tripSpots, trips, accepted, clock, issued, magicTokens, userEmails, verify, verifications, modeRatings, spots, reviews, devUser, pc, call, avg, profiles, result, badges, trust, now, savedReview>>

\* createNewUser: userRepository.save(user).  users.email is unique: the
\* insert of a second row for the e-mail fails and the call ends with it.
SendCreateNewUser(p) ==
    /\ magic[p].pc = "createNewUser"
    /\ IF magic[p].email \in userEmails
       THEN /\ MagicReturn(p, 500)
            /\ userEmails' = userEmails
       ELSE /\ MagicGoto(p, "createDefaultUserProfile")
            /\ userEmails' = userEmails \cup {magic[p].email}
    /\ UNCHANGED <<tripSpots, trips, accepted, clock, issued, magicTokens, verify, verifications, modeRatings, spots, reviews, devUser, pc, call, avg, profiles, result, badges, trust, now, savedReview>>

\* createDefaultUserProfile: the hitchhiking beginner profile of the new user.
SendCreateDefaultUserProfile(p) ==
    /\ magic[p].pc = "createDefaultUserProfile"
    /\ profiles' = [profiles EXCEPT ![magic[p].email] =
                        Some([NewProfile({"hitchhiking"}, "hitchhiking")
                                 EXCEPT !.created_at = now])]
    /\ MagicGoto(p, "delete")
    /\ UNCHANGED <<tripSpots, trips, accepted, clock, issued, magicTokens, userEmails, verify, verifications, modeRatings, spots, reviews, devUser, pc, call, avg, result, badges, trust, now, savedReview>>

\* magicTokenRepository.delete({ email })
SendDelete(p) ==
    /\ magic[p].pc = "delete"
    /\ magicTokens' = {r \in magicTokens : r.email # magic[p].email}
    /\ MagicGoto(p, "saveToken")
    /\ UNCHANGED <<tripSpots, trips, accepted, clock, issued, userEmails, verify, verifications, modeRatings, spots, reviews, devUser, pc, call, avg, profiles, result, badges, trust, now, savedReview>>

\* The token is generated, given its expiry and saved; the call returns.
SendSaveToken(p) ==
    /\ magic[p].pc = "saveToken"
    /\ issued' = Append(issued, magic[p].email)
    /\ magicTokens' = magicTokens \cup
                          {NewMagicToken(Len(issued) + 1, magic[p].email, clock)}
    /\ MagicReturn(p, 200)
    /\ UNCHANGED <<tripSpots, trips, accepted, clock, userEmails, verify, verifications, modeRatings, spots, reviews, devUser, pc, call, avg, profiles, result, badges, trust, now, savedReview>>

\* verifyMagicLink, first await: the lookup of the unused token, then the
\* expiry test.  Both failures are 401.
MagicBegin(p, t, e) ==
    /\ magic[p].pc = "idle"
    /\ IF UnusedTokens(magicTokens, t, e) = {}
       THEN MagicReturn(p, 401)
       ELSE LET magicToken == CHOOSE r \in UnusedTokens(magicTokens, t, e) : TRUE
            IN  IF clock > magicToken.expires_at
                THEN MagicReturn(p, 401)
                ELSE /\ magic' = [magic EXCEPT ![p] =
                                     [pc |-> "findUser", email |-> e, token |-> t,
                                      row |-> Some(magicToken)]]
                     /\ response' = [response EXCEPT ![p] = 0]
    /\ UNCHANGED <<tripSpots, trips, accepted, clock, issued, magicTokens, userEmails, verify, verifications, modeRatings, spots, reviews, devUser, pc, call, avg, profiles, result, badges, trust, now, savedReview>>

\* userRepository.findOne({ where: { email } }): 404 without the user.
MagicFindUser(p) ==
    /\ magic[p].pc = "findUser"
    /\ IF UserFound(magic[p].email)
       THEN MagicGoto(p, "markUsed")
       ELSE MagicReturn(p, 404)
    /\ UNCHANGED <<tripSpots, trips, accepted, clock, issued, magicTokens, userEmails, verify, verifications, modeRatings, spots, reviews, devUser, pc, call, avg, profiles, result, badges, trust, now, savedReview>>

\* magicToken.is_used = true; magicTokenRepository.save(magicToken): the row
\* the call loaded is written back, inserted again if it was deleted
\* meanwhile.  The call returns the access token.
MagicMarkUsed(p) ==
    /\ magic[p].pc = "markUsed"
    /\ magicTokens' = {r \in magicTokens : r.token # magic[p].token} \cup
                          {[Get(magic[p].row) EXCEPT !.is_used = TRUE]}
    /\ accepted' = accepted (+) SetToBag({magic[p].token})
    /\ MagicReturn(p, 200)
    /\ UNCHANGED <<tripSpots, trips, clock, issued, userEmails, verify, verifications, modeRatings, spots, reviews, devUser, pc, call, avg, profiles, result, badges, trust, now, savedReview>>

\* Time passes by one token lifetime.
ClockTick ==
    /\ clock' = clock + 1
    /\ UNCHANGED <<tripSpots, trips, accepted, magic, issued, magicTokens, userEmails, verify, verifications, modeRatings, spots, reviews, devUser, pc, call, avg, profiles, response, result, badges, trust, now, savedReview>>

\* ---------------------------------------------------- magic link specification
\* Tokens generated and lifetimes passed in one behaviour.
MaxTokens == 2
MaxClock == 2

\* The e-mails of the requests: the development one and another.
AuthEmails == {DevUserId, DevUserId + 1}

AuthSend ==
    \E p \in Procs, e \in AuthEmails :
        /\ Len(issued) + Cardinality({q \in Procs : magic[q].pc \in
               {"createNewUser", "createDefaultUserProfile", "delete", "saveToken"}})
             < MaxTokens
        /\ SendBegin(p, e)
AuthCreateUser == \E p \in Procs : SendCreateNewUser(p)
AuthCreateProfile == \E p \in Procs : SendCreateDefaultUserProfile(p)
AuthDelete == \E p \in Procs : SendDelete(p)
AuthSaveToken == \E p \in Procs : SendSaveToken(p)
AuthVerify ==
    \E p \in Procs, t \in 1..MaxTokens, e \in AuthEmails : MagicBegin(p, t, e)
AuthFindUser == \E p \in Procs : MagicFindUser(p)
AuthMarkUsed == \E p \in Procs : MagicMarkUsed(p)
AuthTick == clock < MaxClock /\ ClockTick

AuthNext ==
    \/ AuthSend \/ AuthCreateUser \/ AuthCreateProfile \/ AuthDelete
    \/ AuthSaveToken \/ AuthVerify \/ AuthFindUser \/ AuthMarkUsed \/ AuthTick

AuthSpec == Init /\ [][AuthNext]_vars

\* -------------------------------------------------------------------- trips
\* createTrip: the start coordinates are validated when both are given (the
\* longitude is 1 whenever the latitude is), then the trip is saved.  Trip ids
\* are generated: trip i is the i-th trip saved.  cap bounds the table.
createTrip(cap, startLatitude) ==
    /\ Cardinality(trips) < cap
    /\ IF /\ startLatitude # Absent
          /\ \/ Get(startLatitude) < 0 - 90 * UnitsPerDegree
             \/ Get(startLatitude) > 90 * UnitsPerDegree
       THEN /\ trips' = trips
            /\ response' = [response EXCEPT ![1] = 400]
       ELSE /\ trips' = trips \cup {Cardinality(trips) + 1}
            /\ response' = [response EXCEPT ![1] = 201]
    /\ UNCHANGED <<tripSpots, magic, accepted, clock, issued, magicTokens, userEmails, verify, verifications, modeRatings, spots, reviews, devUser, pc, call, avg, profiles, result, badges, trust, now, savedReview>>

\* The order_index values of a trip's rows.
OrderIndices(tbl, t) == {r.order_index : r \in {x \in BagToSet(tbl) : x.trip_id = t}}

\* SELECT MAX(tripSpot.order_index) ... WHERE tripSpot.trip_id = :tripId:
\* NULL for a trip without rows.
maxOrder(tbl, t) ==
    IF OrderIndices(tbl, t) = {}
    THEN Absent
    ELSE Some(CHOOSE m \in OrderIndices(tbl, t) :
                  \A i \in OrderIndices(tbl, t) : i <= m)

\* The maximum plus one, 0 for a trip without rows.
NextOrderIndexAfterMax(tbl, t) ==
    IF maxOrder(tbl, t) = Absent THEN 0 ELSE Get(maxOrder(tbl, t)) + 1

\* (maxOrder.maxOrder || -1) + 1: NULL and 0 are both falsy.
NextOrderIndex(tbl, t) ==
    IF maxOrder(tbl, t) = Absent \/ maxOrder(tbl, t) = Some(0)
    THEN (0 - 1) + 1
    ELSE Get(maxOrder(tbl, t)) + 1

\* addSpotToTrip: getTripById (404), the next order index unless one is given,
\* then the insert, which the foreign key refuses for a spot that does not
\* exist.  cap bounds the table.
addSpotToTrip(cap, t, s, orderIndex) ==
    /\ BagCardinality(tripSpots) < cap
    /\ IF t \notin trips
       THEN /\ tripSpots' = tripSpots
            /\ response' = [response EXCEPT ![1] = 404]
       ELSE IF s \notin 1..Len(spots)
       THEN /\ tripSpots' = tripSpots
            /\ response' = [response EXCEPT ![1] = 500]
       ELSE /\ tripSpots' = tripSpots (+) SetToBag({
                    [trip_id |-> t, spot_id |-> s,
                     order_index |-> IF orderIndex = Absent
                                     THEN NextOrderIndex(tripSpots, t)
                                     ELSE Get(orderIndex)]})
            /\ response' = [response EXCEPT ![1] = 201]
    /\ UNCHANGED <<trips, magic, accepted, clock, issued, magicTokens, userEmails, verify, verifications, modeRatings, spots, reviews, devUser, pc, call, avg, profiles, result, badges, trust, now, savedReview>>

\* removeSpotFromTrip: the row is looked up (404) and removed.
removeSpotFromTrip(row) ==
    /\ IF BagIn(row, tripSpots)
       THEN /\ tripSpots' = tripSpots (-) SetToBag({row})
            /\ response' = [response EXCEPT ![1] = 200]
       ELSE /\ tripSpots' = tripSpots
            /\ response' = [response EXCEPT ![1] = 404]
    /\ UNCHANGED <<trips, magic, accepted, clock, issued, magicTokens, userEmails, verify, verifications, modeRatings, spots, reviews, devUser, pc, call, avg, profiles, result, badges, trust, now, savedReview>>

\* ------------------------------------------------------- trip specification
\* Trips and trip spots of one behaviour.
MaxTrips == 1
MaxTripSpots == 3

TripIds == 1..(MaxTrips + 1)
TripLatitudes == {Absent} \cup {Some(lat) : lat \in CreateLats}
OrderIndexInputs == {Absent, Some(0), Some(2)}
TripSpotRows ==
    [trip_id : TripIds, spot_id : SpotIdInputs, order_index : 0..(MaxTripSpots + 2)]

TripSpot == \E lat \in CreateLats : createSpot(1, lat, 1, "other")
TripCreate == \E lat \in TripLatitudes : createTrip(MaxTrips, lat)
TripAdd ==
    \E t \in TripIds, s \in 1..2, i \in OrderIndexInputs :
        addSpotToTrip(MaxTripSpots, t, s, i)
TripRemove == \E row \in TripSpotRows : removeSpotFromTrip(row)

TripNext == TripSpot \/ TripCreate \/ TripAdd \/ TripRemove

TripSpec == Init /\ [][TripNext]_vars

\* ------------------------------------------------ verification specification
\* VerifySpec: addVerification calls of several requests interleave statement
\* by statement.  The dev user has a profile one vouch short of MaxVouches,
\* the next user has none.
MaxVerifications == 3

VerifyInit ==
    /\ spots = <<>>
    /\ reviews = EmptyBag
    /\ devUser = FALSE
    /\ pc = Idle
    /\ call = [p \in Procs |-> NoCall]
    /\ avg = [p \in Procs |-> NoAvg]
    /\ profiles = [u \in Users |->
                      IF u = DevUserId
                      THEN Some([NewProfile({"cycling"}, "cycling") EXCEPT
                                    !.community_vouches = MaxVouches - 1])
                      ELSE Absent]
    /\ response = [p \in Procs |-> 0]
    /\ result = NoResult
    /\ badges = EmptyBag
    /\ trust = <<>>
    /\ now = 0
    /\ savedReview = [p \in Procs |-> FALSE]
    /\ modeRatings = NoModeRatings
    /\ verifications = EmptyBag
    /\ verify = [p \in Procs |-> NoVerify]
    /\ userEmails = {}
    /\ magicTokens = {}
    /\ issued = <<>>
    /\ clock = 0
    /\ accepted = EmptyBag
    /\ magic = [p \in Procs |-> NoMagic]
    /\ trips = {}
    /\ tripSpots = EmptyBag

VerifyInputs ==
    {<<DevUserId, "email">>, <<DevUserId, "community_vouch">>,
     <<DevUserId + 1, "email">>}

VerifyStart ==
    \E p \in Procs, v \in VerifyInputs :
        /\ BagCardinality(verifications) < MaxVerifications
        /\ VerifyBegin(p, v[1], v[2])
VerifyLoad == \E p \in Procs : VerifyFindOne(p)
VerifyStore == \E p \in Procs : VerifySave(p)
VerifyTrust == \E p \in Procs : VerifyCheckTrust(p)
VerifyAward == \E p \in Procs : VerifyAwardBadge(p)
VerifyBadge == \E p \in Procs : VerifySaveBadge(p)

VerifyNext ==
    \/ VerifyStart \/ VerifyLoad \/ VerifyStore \/ VerifyTrust
    \/ VerifyAward \/ VerifyBadge

VerifySpec == VerifyInit /\ [][VerifyNext]_vars

\* -------------------------------------------------------- tier specification
\* TierSpec: badge evaluations of a user whose counters stand below, at and
\* above the tier thresholds.
TierProfiles ==
    {[NewProfile({"cycling"}, "cycling") EXCEPT
          !.helpful_reviews = h, !.spots_added = a, !.countries_visited = c] :
        h \in {0, 4, 5, 15, 50}, a \in {0, 1, 16, 50}, c \in {0, 3, 10, 25}}

TierInit ==
    /\ spots = <<>>
    /\ reviews = EmptyBag
    /\ devUser = FALSE
    /\ pc = Idle
    /\ call = [p \in Procs |-> NoCall]
    /\ avg = [p \in Procs |-> NoAvg]
    /\ \E row \in TierProfiles :
           profiles = [u \in Users |-> IF u = DevUserId THEN Some(row) ELSE Absent]
    /\ response = [p \in Procs |-> 0]
    /\ result = NoResult
    /\ badges = EmptyBag
    /\ trust = <<>>
    /\ now = 0
    /\ savedReview = [p \in Procs |-> FALSE]
    /\ modeRatings = NoModeRatings
    /\ verifications = EmptyBag
    /\ verify = [p \in Procs |-> NoVerify]
    /\ userEmails = {}
    /\ magicTokens = {}
    /\ issued = <<>>
    /\ clock = 0
    /\ accepted = EmptyBag
    /\ magic = [p \in Procs |-> NoMagic]
    /\ trips = {}
    /\ tripSpots = EmptyBag

TierCheck == \E u \in Users : checkAndAwardBadges(u)
TierExtended ==
    \E u \in Users, countriesVisited \in {Some(0), Some(25)} :
        updateExtendedProfile(u, Absent, countriesVisited)

TierNext == TierCheck \/ TierExtended

TierSpec == TierInit /\ [][TierNext]_vars

\* ------------------------------------------------------- trust specification
\* TrustSpec: calculateTrustScore over profiles whose columns are drawn from
\* values below, at and above the caps of the score's components, with values
\* that make reviewer_rating * 2 and membershipDays / 30 end in .5.
CounterValues ==
    [helpful_reviews |-> {0, 3, 100}, spots_added |-> {0, 2, 100},
     reviewer_rating |-> {0, 125, 500}, community_vouches |-> {0, 2, 100},
     email_verified |-> BOOLEAN, phone_verified |-> BOOLEAN,
     social_connected |-> BOOLEAN]

DayValues == {0, 45, 1000}

TrustProfiles ==
    {[NewProfile({"cycling"}, "cycling") EXCEPT
          !.email_verified = e, !.phone_verified = ph, !.social_connected = so,
          !.helpful_reviews = h, !.spots_added = sp, !.reviewer_rating = rr,
          !.community_vouches = v] :
        e \in CounterValues.email_verified, ph \in CounterValues.phone_verified,
        so \in CounterValues.social_connected,
        h \in CounterValues.helpful_reviews, sp \in CounterValues.spots_added,
        rr \in CounterValues.reviewer_rating,
        v \in CounterValues.community_vouches}

TrustInit ==
    /\ spots = <<>>
    /\ reviews = EmptyBag
    /\ devUser = FALSE
    /\ pc = Idle
    /\ call = [p \in Procs |-> NoCall]
    /\ avg = [p \in Procs |-> NoAvg]
    /\ \E row \in TrustProfiles :
           profiles = [u \in Users |-> IF u = 1 THEN Some(row) ELSE Absent]
    /\ response = [p \in Procs |-> 0]
    /\ result = NoResult
    /\ badges = EmptyBag
    /\ trust = <<>>
    /\ now \in DayValues
    /\ savedReview = [p \in Procs |-> FALSE]
    /\ modeRatings = NoModeRatings
    /\ verifications = EmptyBag
    /\ verify = [p \in Procs |-> NoVerify]
    /\ userEmails = {}
    /\ magicTokens = {}
    /\ issued = <<>>
    /\ clock = 0
    /\ accepted = EmptyBag
    /\ magic = [p \in Procs |-> NoMagic]
    /\ trips = {}
    /\ tripSpots = EmptyBag

\* The score is asked for once for each state of the profile and the clock.
TrustCalculate ==
    \E u \in Users :
        /\ IF trust = <<>> THEN TRUE
           ELSE <<trust[1].user, trust[1].days, trust[1].profile>> # <<u, now, profiles[u]>>
        /\ calculateTrustScore(u)

\* Between two calls one column changes, or time passes.
TrustSetColumn ==
    /\ Len(trust) = 1
    /\ trust[1].days = now
    /\ \E u \in Users, column \in DOMAIN CounterValues :
           /\ trust[1].user = u
           /\ trust[1].profile = profiles[u]
           /\ \E v \in CounterValues[column] : SetProfileColumn(u, column, v)

TrustTick ==
    /\ Len(trust) = 1
    /\ trust[1].profile = profiles[trust[1].user]
    /\ \E day \in DayValues : Tick(day)

TrustNext == TrustCalculate \/ TrustSetColumn \/ TrustTick

TrustSpec == TrustInit /\ [][TrustNext]_vars

\* ------------------------------------------------------------------ claims
\* The mean sum/n rounded to one decimal, in tenths, as the specification
\* states it: the tenth nearest to the mean, the upper one at a tie.
MeanTenths(sum, n) ==
    IF n = 0 THEN 0
    ELSE CHOOSE t \in 0..60 : 2 * t * n <= 20 * sum + n /\ 20 * sum + n < 2 * (t + 1) * n

ReviewsOfMode(tbl, s, m) == {r \in ReviewsOfSpot(tbl, s) : r.transport_mode = m}

C2_OneReviewPerPairConcurrent ==
    \A u \in Users, s \in SpotIdInputs : ReviewCount(reviews, u, s) <= 1

\* C3: with the calls run one at a time, every spot's stored overall_rating
\* and safety_rating are the one-decimal means of its reviews' overall_rating
\* and safety_rating, and 0 for a spot without reviews.
C3_RatingsAreMeans ==
    \A s \in SpotIdsOf(spots) :
        LET rows == ReviewsOfSpot(reviews, s)
            n == CountOver(reviews, rows)
        IN  /\ spots[s].overall_rating =
                   MeanTenths(SumOver(reviews, rows, "overall_rating"), n)
            /\ spots[s].safety_rating =
                   MeanTenths(SumOver(reviews, rows, "safety_rating"), n)

\* A spot with three reviews whose mean safety_rating 5/3 is stored as 1.7,
\* beside a spot without reviews.
C3_Witness ==
    \E s \in SpotIdsOf(spots), t \in SpotIdsOf(spots) :
        /\ CountOver(reviews, ReviewsOfSpot(reviews, s)) = 3
        /\ SumOver(reviews, ReviewsOfSpot(reviews, s), "safety_rating") = 5
        /\ spots[s].safety_rating = 17
        /\ ReviewsOfSpot(reviews, t) = {}
        /\ spots[t].overall_rating = 0

\* C4: for every spot and mode with reviews (each one the product of a
\* successful addSpotReview), the spot's mode_ratings has the entry of that
\* mode, with review_count the number of those reviews and safety and
\* effectiveness their one-decimal means.
C4_ModeRatingsFollowReviews ==
    \A s \in SpotIdsOf(spots), m \in TransportMode :
        LET rows == ReviewsOfMode(reviews, s, m)
            n == CountOver(reviews, rows)
        IN  n > 0 =>
            \E mr \in spots[s].mode_ratings :
                /\ mr.mode = m
                /\ mr.review_count = n
                /\ mr.safety = MeanTenths(SumOver(reviews, rows, "safety_rating"), n)
                /\ mr.effectiveness =
                       MeanTenths(SumOver(reviews, rows, "effectiveness_rating"), n)

\* C5: once the interleaved addSpotReview calls have all completed, and each
\* was by a different user, every spot's stored ratings are the means over all
\* of its reviews.
C5_FinalRatingsCoverAllReviews ==
    (/\ \A p \in Procs : pc[p] = "idle"
     /\ \A u \in Users, s \in SpotIdInputs : ReviewCount(reviews, u, s) <= 1)
    => C3_RatingsAreMeans

\* The spots rows a response returns, in order.
Returned == [i \in 1..Len(result.spots) |-> spots[result.spots[i]]]

ListingRoutes == {"filtered", "for-mode", "list", "nearby"}

\* The request of the response names a search centre.
CentreGiven == result.req.latitude # Absent /\ result.req.longitude # Absent

\* The radius in km the request asks for: the one given, at most 100, else 10.
RadiusAsked == Min(OrElse(result.req.radius, 10), 100)

DistanceOf(i) ==
    Dist2(Returned[i], Get(result.req.latitude), Get(result.req.longitude))

\* C6: every spot a discovery query returns is active and satisfies every
\* predicate the request supplies: the spot type, the minimum rating, the
\* safety priority, the transport modes and the radius around the centre.
C6_ReturnedSpotsSatisfyRequest ==
    result.status = 200 =>
    \A i \in 1..Len(result.spots) :
        LET row == Returned[i]
            req == result.req
        IN  /\ row.is_active
            /\ (req.spot_type # Absent /\ Get(req.spot_type) \in SpotType)
                  => row.spot_type = Get(req.spot_type)
            /\ (req.min_rating # Absent /\ Get(req.min_rating) \in 0..50)
                  => row.overall_rating >= Get(req.min_rating)
            /\ req.safety_priority = Some("high") => row.safety_rating >= 40
            /\ req.safety_priority = Some("medium") => row.safety_rating >= 25
            /\ (req.transport_modes # Absent
                /\ Get(req.transport_modes) \cap TransportMode # {})
                  => row.transport_modes \cap Get(req.transport_modes) # {}
            /\ req.route = "for-mode" => Get(req.mode) \in row.transport_modes
            /\ CentreGiven => DistanceOf(i) <= RadiusAsked * RadiusAsked

\* C7: a listing returns at most as many spots as its effective limit, the
\* effective limit is 50 when the request gives none (on /nearby, whose own
\* default is 20, this part is not asked), and it never exceeds 100.
C7_LimitBounds ==
    (result.status = 200 /\ result.req.route \in ListingRoutes) =>
        /\ Len(result.spots) <= result.limit
        /\ (result.req.limit = Absent /\ result.req.route # "nearby")
              => result.limit = 50
        /\ result.limit <= 100

\* C8: a listing request with a limit above 100 is answered 400 with no spots,
\* and one with limit 100 and no other parameter, over at least 100 active
\* spots, returns exactly 100.
C8_LimitOver100Rejected ==
    result.req.route \in ListingRoutes =>
        /\ (result.req.limit # Absent /\ Get(result.req.limit) > 100)
              => result.status = 400 /\ result.spots = <<>>
        /\ (/\ [result.req EXCEPT !.route = "none"] = [NoQuery EXCEPT !.limit = Some(100)]
            /\ result.req.route \in {"filtered", "list"}
            /\ Cardinality({i \in 1..Len(spots) : spots[i].is_active}) >= 100)
              => result.status = 200 /\ Len(result.spots) = 100

\* C9: when the request gives a latitude and a longitude, every returned spot
\* lies within the radius of that point and the spots come in ascending order
\* of distance from it.
C9_WithinRadiusAscending ==
    (result.status = 200 /\ result.req.route \in ListingRoutes /\ CentreGiven) =>
        /\ \A i \in 1..Len(result.spots) : DistanceOf(i) <= RadiusAsked * RadiusAsked
        /\ \A i, j \in 1..Len(result.spots) : i < j => DistanceOf(i) <= DistanceOf(j)

\* C10: when a listing is ordered by distance (both coordinates given and not
\* 0), two returned spots at the same distance come in the order of their
\* creation.
C10_TiesByCreationTime ==
    (/\ result.status = 200
     /\ result.req.route \in ListingRoutes
     /\ Truthy(result.req.latitude)
     /\ Truthy(result.req.longitude)) =>
        \A i, j \in 1..Len(result.spots) :
            (i < j /\ DistanceOf(i) = DistanceOf(j)) => result.spots[i] < result.spots[j]

\* The inputs of the trust score one calculateTrustScore call read.
TrustInputs(c) ==
    LET row == Get(c.profile)
    IN  [email |-> row.email_verified, phone |-> row.phone_verified,
         social |-> row.social_connected, helpful_reviews |-> row.helpful_reviews,
         spots_added |-> row.spots_added, reviewer_rating |-> row.reviewer_rating,
         membership_days |-> c.days - row.created_at,
         community_vouches |-> row.community_vouches]

\* The integer nearest to n / d, the upper one at a tie.
NearestInteger(n, d) ==
    CHOOSE t \in 0..200 : 2 * d * t <= 2 * n + d /\ 2 * n + d < 2 * d * (t + 1)

Flag(b) == IF b THEN 1 ELSE 0

\* The score as the specification states it, reviewer_rating being in
\* hundredths: the sum is taken over the denominator 300.
TrustClaimed(in) ==
    Min(100, NearestInteger(
        300 * (15 * Flag(in.email) + 15 * Flag(in.phone) + 10 * Flag(in.social))
        + 300 * Min(2 * in.helpful_reviews, 20)
        + 300 * Min(3 * in.spots_added, 15)
        + Min(6 * in.reviewer_rating, 3000)
        + Min(10 * in.membership_days, 3000)
        + 300 * Min(2 * in.community_vouches, 10), 300))

\* Every input is at or above the value at which its component is capped.
AllAtCap(in) ==
    /\ in.email /\ in.phone /\ in.social
    /\ in.helpful_reviews >= 10
    /\ in.spots_added >= 5
    /\ in.reviewer_rating >= 500
    /\ in.membership_days >= 300
    /\ in.community_vouches >= 5

\* C11: for every profile, calculateTrustScore returns an integer in 0..100,
\* equal to min(100, round(15 email + 15 phone + 10 social
\* + min(2 helpful_reviews, 20) + min(3 spots_added, 15)
\* + min(2 reviewer_rating, 10) + min(membership_days / 30, 10)
\* + min(2 community_vouches, 10))), and 100 when every input is at its cap.
C11_TrustScoreFormula ==
    \A i \in 1..Len(trust) :
        trust[i].profile # Absent =>
            /\ trust[i].out \in 0..100
            /\ trust[i].out = TrustClaimed(TrustInputs(trust[i]))
            /\ AllAtCap(TrustInputs(trust[i])) => trust[i].out = 100

\* A profile with every input above its cap scored 100, after a call on the
\* same profile with reviewer_rating 1.25 (a sum ending in .5).
C11_Witness ==
    /\ Len(trust) = 2
    /\ trust[1].profile # Absent /\ trust[2].profile # Absent
    /\ AllAtCap(TrustInputs(trust[1]))
    /\ trust[1].out = 100
    /\ TrustInputs(trust[2]).reviewer_rating = 125

\* One call's inputs are all at most the other's.
InputsAtMost(a, b) ==
    /\ a.email => b.email
    /\ a.phone => b.phone
    /\ a.social => b.social
    /\ a.helpful_reviews <= b.helpful_reviews
    /\ a.spots_added <= b.spots_added
    /\ a.reviewer_rating <= b.reviewer_rating
    /\ a.membership_days <= b.membership_days
    /\ a.community_vouches <= b.community_vouches

\* The inputs in which two calls differ.
InputsChanged(a, b) == {k \in DOMAIN a : a[k] # b[k]}

\* C12: calculateTrustScore is monotonic non-decreasing in each input taken
\* alone: of two calls whose inputs differ in one input only, the call with
\* the larger input (a flag risen from false to true) returns at least the
\* score of the other.
C12_TrustScoreMonotonic ==
    (/\ Len(trust) = 2
     /\ trust[1].profile # Absent
     /\ trust[2].profile # Absent) =>
        LET a == TrustInputs(trust[2])
            b == TrustInputs(trust[1])
        IN  /\ (Cardinality(InputsChanged(a, b)) = 1 /\ InputsAtMost(a, b))
                  => trust[2].out <= trust[1].out
            /\ (Cardinality(InputsChanged(a, b)) = 1 /\ InputsAtMost(b, a))
                  => trust[1].out <= trust[2].out

\* Two calls that differ in social_connected alone, the score rising with it.
C12_Witness ==
    /\ Len(trust) = 2
    /\ trust[1].profile # Absent /\ trust[2].profile # Absent
    /\ InputsChanged(TrustInputs(trust[2]), TrustInputs(trust[1])) = {"social"}
    /\ TrustInputs(trust[1]).social
    /\ trust[2].out < trust[1].out

\* The user_badges table after checkAndAwardBadges(u) in the current state.
AfterCheck(u) == CheckAndAward(badges, profiles, u, now)

\* C13: checkAndAwardBadges called twice in succession for a user, the
\* profile (and the day) unchanged between the calls, creates no badge in
\* the second call: the table after the second call is the table after the
\* first.
C13_SecondCheckAwardsNothing ==
    \A u \in Users :
        CheckAndAward(AfterCheck(u), profiles, u, now) = AfterCheck(u)

\* A user who holds badges from an earlier call and to whom the first of two
\* calls awards another.
C13_Witness ==
    \E u \in Users :
        /\ BadgeKeysOf(badges, u) # {}
        /\ AfterCheck(u) # badges
        /\ BadgeKeysOf(badges, u) \subseteq BadgeKeysOf(AfterCheck(u), u)

\* The update would leave the user's profile with a primary mode outside its
\* travel modes.
ViolatingUpdate(u, updates) ==
    /\ ProfileFound(profiles, u)
    /\ OrElse(updates.primaryMode, Get(profiles[u]).primary_mode) \notin
           (IF updates.travelModes = Absent THEN Get(profiles[u]).travel_modes
            ELSE Range(Get(updates.travelModes)))

\* Every stored profile has its primary mode among its travel modes.
PrimaryAmongTravelModes ==
    \A u \in Users :
        ProfileFound(profiles, u) =>
            Get(profiles[u]).primary_mode \in Get(profiles[u]).travel_modes

\* A PUT /me/profile carrying a violating update answers 409 and leaves the
\* profiles as they were.
ViolatingUpdateRejected ==
    \A u \in ProfileUsers, updates \in ProfileUpdates :
        (ViolatingUpdate(u, updates) /\ PutMeProfile(u, updates)) =>
            /\ response'[1] = 409
            /\ profiles' = profiles

\* C14: after every profile creation or update the profile's primary_mode is
\* a member of its travel_modes; an update that would violate this is
\* rejected with Conflict (409) and leaves the profile unchanged.
C14_PrimaryModeAmongTravelModes ==
    /\ []PrimaryAmongTravelModes
    /\ [][ViolatingUpdateRejected]_vars

\* Every user has a profile, one of them with several travel modes, and the
\* last PUT /me/profile was answered 409: it was an update, and was rejected.
C14_Witness ==
    /\ \A u \in ProfileUsers : ProfileFound(profiles, u)
    /\ \E u \in ProfileUsers : Cardinality(Get(profiles[u]).travel_modes) > 1
    /\ response[1] = 409

\* Request p's addSpotReview call has ended in a failure.
ReviewFailed(p) == pc[p] = "idle" /\ response[p] >= 400

\* C15: when updateSpotRatings fails after the review insert has succeeded,
\* the review stays persisted and the caller receives an outcome
\* distinguishable from that of a failure in which nothing was persisted: of
\* two failed calls, one having inserted its review and the other not, the
\* responses differ, and the inserted review is in the table.
C15_FailureAfterInsertDistinguishable ==
    \A p \in Procs, q \in Procs :
        (ReviewFailed(p) /\ savedReview[p] /\ ReviewFailed(q) /\ ~savedReview[q]) =>
            /\ response[p] # response[q]
            /\ NumReviews(reviews) > 0

\* C16: addSpotReview rejects a review any of whose safety, effectiveness or
\* overall rating is outside 1..5, so every persisted review has all three
\* ratings within 1..5.
C16_PersistedRatingsInRange ==
    \A r \in ReviewRows(reviews) :
        /\ r.safety_rating \in 1..5
        /\ r.effectiveness_rating \in 1..5
        /\ r.overall_rating \in 1..5

\* The spots table has an active row with this id.
ActiveSpot(s) == IF s \in SpotIdsOf(spots) THEN spots[s].is_active ELSE FALSE

\* An addSpotReview call on a spot id without an active row persists nothing
\* and answers 404 (400 when the ratings already failed the validation).
ReviewOfMissingSpotFails ==
    \A s \in SpotIdInputs, d \in ReviewInputs :
        (~ActiveSpot(s) /\ addSpotReview(s, d)) =>
            /\ reviews' = reviews
            /\ response'[1] = IF RatingError(d) THEN 400 ELSE 404

\* No step adds a review of a spot that has no active row.
NoReviewAfterDeletion ==
    \A r \in ReviewRows(reviews') :
        ~ActiveSpot(r.spot_id) => CopiesIn(r, reviews') = CopiesIn(r, reviews)

BadgesKept == \A b \in BagToSet(badges) : CopiesIn(b, badges') >= CopiesIn(b, badges)

\* C18: a badge once awarded is never removed by a later operation of the
\* service (updateProfileStats, updateExtendedProfile, addVerification,
\* checkAndAwardBadges), also when the counter that unlocked it has dropped
\* below the threshold: a user's badges only grow.
C18_BadgesOnlyGrow == [][BadgesKept]_vars

\* A user holds helpful_reviewer_bronze and country_explorer_bronze while
\* the profile counts no helpful review and no visited country.
C18_Witness ==
    \E u \in Users :
        /\ ProfileFound(profiles, u)
        /\ {"helpful_reviewer_bronze", "country_explorer_bronze"} \subseteq
               BadgeKeysOf(badges, u)
        /\ Get(profiles[u]).helpful_reviews = 0
        /\ Get(profiles[u]).countries_visited = 0

\* After an addSpotReview call answered 201, the reviewer's profile counts
\* the reviews the table holds of that user, and no badge is left to award.
ReviewRefreshesReviewer ==
    \A s \in 1..BadgeSpots, d \in BadgeReviewInputs :
        (/\ addSpotReview(s, d)
         /\ response'[1] = 201
         /\ ProfileFound(profiles, d.user_id)) =>
            /\ Get(profiles'[d.user_id]).total_reviews =
                   CountOver(reviews', ReviewsOfUser(reviews', d.user_id))
            /\ CheckAndAward(badges', profiles', d.user_id, now') = badges'

\* C19: after a successful addSpotReview by user u, the Trust & Badge Scorer
\* has been triggered for u: u's profile review statistics (total_reviews,
\* helpful_reviews) reflect the new review and badge evaluation has run,
\* with no separate refresh request.
C19_ReviewTriggersScorer == [][ReviewRefreshesReviewer]_vars

\* The effective transport-mode set of the /filtered request answered last.
EffectiveModes == EffectiveTransportModes(FilteredFilters(result.req), profiles)

\* The active spots that meet the predicates of the request other than the
\* transport modes.
MeetingOtherPredicates ==
    LET f == FilteredFilters(result.req)
    IN  {i \in SpotIdsOf(spots) :
            /\ spots[i].is_active
            /\ Located(f) => DWithin(spots[i], Get(f.latitude), Get(f.longitude),
                                     OrElse(f.radius, 10))
            /\ f.spotType # Absent => spots[i].spot_type = Get(f.spotType)
            /\ Truthy(f.minRating) => spots[i].overall_rating >= Get(f.minRating)
            /\ f.safetyPriority = Some("high") => spots[i].safety_rating >= 40
            /\ f.safetyPriority = Some("medium") => spots[i].safety_rating >= 25}

\* C20: when the effective transport-mode set of a findSpots request is
\* non-empty, a spot is included only if its transport_modes shares a mode
\* with the set, and sharing one suffices (overlap, not subset); when the set
\* is empty no spot is excluded on account of its modes.  Inclusion is
\* stated for requests that give no limit and no offset, whose page holds
\* the whole table.
C20_TransportModesOverlap ==
    (result.status = 200 /\ result.req.route = "filtered") =>
        /\ EffectiveModes # {} =>
               \A i \in 1..Len(result.spots) :
                   Returned[i].transport_modes \cap EffectiveModes # {}
        /\ (result.req.limit = Absent /\ result.req.offset = Absent) =>
               Range(result.spots) =
                   {i \in MeetingOtherPredicates :
                       EffectiveModes # {} =>
                           spots[i].transport_modes \cap EffectiveModes # {}}

\* A request for cycling or van_life returned a spot for cycling and walking,
\* neither set containing the other, and left out the spot without modes.
C20_Witness ==
    /\ result.status = 200
    /\ result.req.route = "filtered"
    /\ EffectiveModes = {"cycling", "van_life"}
    /\ \E i \in 1..Len(result.spots) :
           Returned[i].transport_modes = {"cycling", "walking"}
    /\ \E i \in MeetingOtherPredicates :
           spots[i].transport_modes = {} /\ i \notin Range(result.spots)

\* The /filtered request answered last carries a user id and no transport
\* modes.
ByUserAlone ==
    /\ result.status = 200
    /\ result.req.route = "filtered"
    /\ result.req.user # Absent
    /\ result.req.transport_modes = Absent

\* The mode restriction the profile of the request's user stands for.
ProfileRestriction ==
    LET u == Get(result.req.user)
    IN  IF profiles[u] = Absent THEN {}
        ELSE IF Get(profiles[u]).show_all_spots THEN {}
        ELSE Get(profiles[u]).travel_modes

\* C21: for a findSpots request that carries a user id and no explicit
\* transport modes, the effective mode restriction is empty (show all) when
\* the user has no profile or the profile has show_all_spots = true,
\* whatever travel_modes are stored, and otherwise the profile's
\* travel_modes; the response holds the spots that restriction admits.
C21_RestrictionFromProfile ==
    ByUserAlone =>
        /\ EffectiveModes = ProfileRestriction
        /\ (result.req.limit = Absent /\ result.req.offset = Absent) =>
               Range(result.spots) =
                   {i \in MeetingOtherPredicates :
                       ProfileRestriction # {} =>
                           spots[i].transport_modes \cap ProfileRestriction # {}}

\* A user whose profile stores travel modes and has show_all_spots set got a
\* spot that shares no mode with the stored ones.
C21_Witness ==
    /\ ByUserAlone
    /\ profiles[Get(result.req.user)] # Absent
    /\ Get(profiles[Get(result.req.user)]).show_all_spots
    /\ \E i \in 1..Len(result.spots) :
           /\ Returned[i].transport_modes # {}
           /\ Returned[i].transport_modes
                  \cap Get(profiles[Get(result.req.user)]).travel_modes = {}

\* C22: a findSpots request with a location and a radius that is <= 0 or
\* > 100 km is rejected with a validation error and returns no spots; the
\* radius is not replaced by another value.
C22_RadiusOutOfRangeRejected ==
    (/\ result.req.route \in ListingRoutes
     /\ CentreGiven
     /\ result.req.radius # Absent
     /\ (Get(result.req.radius) <= 0 \/ Get(result.req.radius) > 100)) =>
        /\ result.status = 400
        /\ result.spots = <<>>

\* The request of the response names a latitude outside [-90, 90] or a
\* longitude outside [-180, 180].
OffTheGlobe ==
    \/ /\ result.req.latitude # Absent
       /\ \/ Get(result.req.latitude) < 0 - 90 * UnitsPerDegree
          \/ Get(result.req.latitude) > 90 * UnitsPerDegree
    \/ /\ result.req.longitude # Absent
       /\ \/ Get(result.req.longitude) < 0 - 180 * UnitsPerDegree
          \/ Get(result.req.longitude) > 180 * UnitsPerDegree

\* C23: a findSpots request whose latitude is outside [-90, 90] or whose
\* longitude is outside [-180, 180] is rejected with a validation error on
\* every discovery path (filtered, for-mode, nearby); it is neither clamped
\* nor executed.
C23_CoordinatesOutOfRangeRejected ==
    (result.req.route \in {"filtered", "for-mode", "nearby"} /\ OffTheGlobe) =>
        result.status = 400

\* The reviews of one mode that updateSpotAggregatedRatings loaded, and those
\* of them that supply a value in an optional column.
LoadedOfMode(mode) == {r \in BagToSet(modeRatings.reviews) : r.transport_mode = mode}

Suppliers(mode, column) == {r \in LoadedOfMode(mode) : r[column] # Absent}

\* v, in tenths, is the one-decimal mean of the column over the reviews of the
\* mode that supply it.
MeanOfSuppliers(v, mode, column) ==
    LET rows == Suppliers(mode, column)
        n == CountOver(modeRatings.reviews, rows)
        sum == SumSupplied(modeRatings.reviews, rows, column)
        diff == 10 * sum - v * n
    IN  /\ n > 0
        /\ 2 * diff <= n
        /\ 2 * diff > 0 - n

\* An extra field of an entry is there exactly when the field belongs to the
\* entry's mode and a review supplies the column, and is then the mean over
\* the suppliers.
ExtraFieldAsClaimed(entry, field, column, modes) ==
    /\ entry[field] # Absent <=>
           (entry.mode \in modes /\ Suppliers(entry.mode, column) # {})
    /\ entry[field] # Absent => MeanOfSuppliers(Get(entry[field]), entry.mode, column)

\* C24: in the per-mode statistics computed for a spot, a mode-specific extra
\* field (avg_wait_time for hitchhiking, legal_status for van_life, facilities
\* and accessibility for cycling and walking) is present only if at least one
\* review of that mode supplies the optional value, and its value is the mean
\* over the reviews that supply it, reviews without the value being left out
\* rather than counted as zero.
C24_ExtraFieldsOverSuppliers ==
    \A entry \in modeRatings.stats :
        /\ ExtraFieldAsClaimed(entry, "avg_wait_time", "wait_time_minutes",
                               {"hitchhiking"})
        /\ ExtraFieldAsClaimed(entry, "legal_status", "legal_status", {"van_life"})
        /\ ExtraFieldAsClaimed(entry, "facilities", "facility_rating",
                               {"cycling", "walking"})
        /\ ExtraFieldAsClaimed(entry, "accessibility", "accessibility_rating",
                               {"cycling", "walking"})

\* Two hitchhiking reviews, one of them with a wait time of 10 minutes, gave
\* avg_wait_time 10.0; the cycling entry beside it has facilities and no
\* accessibility.
C24_Witness ==
    /\ \E entry \in modeRatings.stats :
           /\ entry.mode = "hitchhiking"
           /\ entry.review_count = 2
           /\ Cardinality(Suppliers("hitchhiking", "wait_time_minutes")) = 1
           /\ entry.avg_wait_time = Some(100)
    /\ \E entry \in modeRatings.stats :
           /\ entry.mode = "cycling"
           /\ entry.facilities # Absent
           /\ entry.accessibility = Absent

\* The tiers of the three families: the profile counter, the threshold and
\* the badge key.
Tiers ==
    {[counter |-> "helpful_reviews", threshold |-> t[1], key |-> t[2]] :
        t \in {<<5, "helpful_reviewer_bronze">>, <<15, "helpful_reviewer_silver">>,
               <<50, "helpful_reviewer_gold">>}}
    \cup {[counter |-> "spots_added", threshold |-> t[1], key |-> t[2]] :
        t \in {<<5, "spot_contributor_bronze">>, <<15, "spot_contributor_silver">>,
               <<50, "spot_contributor_gold">>}}
    \cup {[counter |-> "countries_visited", threshold |-> t[1], key |-> t[2]] :
        t \in {<<3, "country_explorer_bronze">>, <<10, "country_explorer_silver">>,
               <<25, "country_explorer_gold">>}}

\* C25: for a multi-tier badge family (helpful_reviewer, spot_contributor,
\* country_explorer) one badge evaluation awards every tier whose threshold
\* the counter meets, not only the highest: after checkAndAwardBadges with
\* counter value c the user holds the key of each tier with threshold <= c.
C25_EveryTierMet ==
    \A u \in Users :
        ProfileFound(profiles, u) =>
            \A tier \in Tiers :
                Get(profiles[u])[tier.counter] >= tier.threshold =>
                    tier.key \in BadgeKeysOf(AfterCheck(u), u)

\* An evaluation has left a user with 50 spots and 15 helpful reviews the
\* three spot_contributor tiers and the two lower helpful_reviewer tiers.
C25_Witness ==
    \E u \in Users :
        /\ ProfileFound(profiles, u)
        /\ Get(profiles[u]).spots_added = 50
        /\ Get(profiles[u]).helpful_reviews = 15
        /\ {"spot_contributor_bronze", "spot_contributor_silver",
            "spot_contributor_gold", "helpful_reviewer_bronze",
            "helpful_reviewer_silver"} \subseteq BadgeKeysOf(badges, u)
        /\ "helpful_reviewer_gold" \notin BadgeKeysOf(badges, u)

\* C26: in every reachable state, those reached by concurrent badge
\* evaluations for the same user included, there is at most one badge record
\* per (user_id, badge_key).
C26_OneBadgePerKey ==
    \A b \in BagToSet(badges) : CopiesIn(b, badges) <= 1

\* No addVerification call is in flight.
VerifyIdle == \A p \in Procs : verify[p].pc = "idle"

\* The community_vouch rows of a user in trust_verifications.
VouchRecords(u) == CopiesIn([user_id |-> u, type |-> "community_vouch"], verifications)

\* C27: for every user with a profile, once the addVerification calls of type
\* community_vouch have completed, concurrent ones included,
\* community_vouches has risen (from MaxVouches - 1) by exactly the number of
\* vouch records created, and a user whose counter has reached 5 holds the
\* trusted_by_community badge.
C27_VouchesCountedAndRewarded ==
    VerifyIdle =>
        \A u \in Users :
            ProfileFound(profiles, u) =>
                /\ Get(profiles[u]).community_vouches =
                       (MaxVouches - 1) + VouchRecords(u)
                /\ Get(profiles[u]).community_vouches >= 5 =>
                       "trusted_by_community" \in BadgeKeysOf(badges, u)

\* A createSpot call with a latitude past 90 degrees.
RejectedCreate ==
    \E lat \in CreateLats :
        /\ lat > 90 * UnitsPerDegree
        /\ createSpot(MaxSpots, lat, 1, "other")

\* C28: a createSpot call with a latitude outside [-90, 90] fails with 400 and
\* leaves the persistent store as it was: no spot, no review and no user row
\* is created by the rejected call.
C28_RejectedCreateLeavesStore ==
    [][RejectedCreate =>
          /\ response'[1] = 400
          /\ UNCHANGED <<spots, reviews, devUser>>]_vars

\* A sendMagicLink call for the e-mail has begun and not returned.
SendInFlight(e) ==
    \E p \in Procs :
        /\ magic[p].email = e
        /\ magic[p].pc \in {"createNewUser", "createDefaultUserProfile",
                            "delete", "saveToken"}

\* The token generated last for the e-mail.
LatestIssued(e) ==
    CHOOSE t \in 1..Len(issued) :
        /\ issued[t] = e
        /\ \A later \in (t + 1)..Len(issued) : issued[later] # e

\* No token has been answered with an access token twice.
AuthenticatesOnce ==
    \A t \in BagToSet(accepted) : CopiesIn(t, accepted) <= 1

\* Once the sendMagicLink calls for an e-mail have returned, the only token
\* of the e-mail a verifyMagicLink call can still find, unused and not
\* expired, is the one generated last.
SupersededUnverifiable ==
    \A r \in magicTokens :
        (~r.is_used /\ clock <= r.expires_at /\ ~SendInFlight(r.email)) =>
            r.token = LatestIssued(r.email)

\* C29: a magic-link token authenticates at most once, later and concurrent
\* verifyMagicLink calls with it included, and after sendMagicLink for an
\* e-mail no token issued for the e-mail before can be verified.
C29_TokenAuthenticatesOnce ==
    AuthenticatesOnce /\ SupersededUnverifiable

\* An addSpotToTrip call without an order_index that has inserted its row.
Appended(t, s) ==
    /\ addSpotToTrip(MaxTripSpots, t, s, Absent)
    /\ response'[1] = 201

\* C30: an addSpotToTrip call without an explicit order_index gives its row
\* the trip's current maximum order index plus one, 0 on a trip without
\* spots, so that successive appends get 0, 1, 2, ... and share no index.
C30_AppendedAfterMaximum ==
    [][\A t \in TripIds, s \in 1..2 :
          Appended(t, s) =>
              tripSpots' = tripSpots (+) SetToBag({
                  [trip_id |-> t, spot_id |-> s,
                   order_index |-> NextOrderIndexAfterMax(tripSpots, t)]})]_vars

====
